---- MODULE Spec2Model ----
(***************************************************************************)
(* Maka: the document edit model.                                          *)
(*                                                                         *)
(* A Document owns an ordered sequence of observations, an EditHistory and *)
(* a set of edit listeners.  Document.edit replaces a range of the         *)
(* sequence, Document.undo and Document.redo replay the history, and every *)
(* committed change is reported to the listeners.                          *)
(*                                                                         *)
(* Indices are Python indices (0-based, half-open ranges); sequences are   *)
(* TLA+ sequences (1-based), so observations[i] of the source is           *)
(* observations[i + 1] here.                                               *)
(***************************************************************************)
EXTENDS Integers, Sequences, FiniteSets, TLC

(***************************************************************************)
(* Bounds of the model.                                                    *)
(***************************************************************************)
\* longest document the model builds
MaxLen == 4
\* most edits the history holds at one time
MaxUndo == 2
\* the same while listeners come and go
MaxUndoListeners == 1

\* observations are modelled by their value (Obs(x=i) of DocumentTests)
Vals == {1, 2}
\* names given to edits: as in EditHistoryTests, the edit that becomes the
\* k-th of the history is given the k-th name
Names == <<"one", "two", "three", "four">>
\* the listeners that may be registered with the document
Listeners == {"l1", "l2"}
\* Python's None, for undoName and redoName
None == "None"

VARIABLES
    observations,    \* Document.observations
    undoStack,       \* EditHistory: the edits that can be undone, oldest first
    redoStack,       \* EditHistory: the edits that can be redone, oldest undone last
    savedIndex,      \* EditHistory: the position recorded by markDocumentSaved
    editListeners,   \* Document._editListeners
    notified,        \* per listener: the calls it received during the last call
    call,            \* the last call made on the document and its outcome
    undoGhost,       \* history: the sequence before and after each undoable edit
    redoGhost,       \* history: the same for each redoable edit
    constructed,     \* history: the sequence the document was constructed with
    marked,          \* history: the sequence when markSaved was last called
    prior            \* history: what the document showed before the last call

VARIABLES
    records,         \* the observations (records) a client holds, by name
    fieldCall,       \* the last call made on a record and its outcome
    sample           \* a function of the formats applied to one input

VARIABLES
    heap,            \* the record objects made so far: the field value of each
    live,            \* Document.observations as references into the heap
    undoEdits,       \* the undoable edits, holding references into the heap
    redoEdits,       \* the redoable edits, holding references into the heap
    owned,           \* the references a caller holds to records it made
    nextNumber,      \* SerialNumberGenerator._nextNumber of each generator
    command          \* the last command executed and its outcome

\* the document and its history
docVars == <<observations, undoStack, redoStack, savedIndex, editListeners,
             notified, call, undoGhost, redoGhost, constructed, marked,
             prior>>
\* the records and the formats
schemaVars == <<records, fieldCall, sample>>
\* record objects with their identities, and the commands
clientVars == <<heap, live, undoEdits, redoEdits, owned, nextNumber, command>>

vars == <<docVars, schemaVars, clientVars>>

\* the names under which a client holds records
Slots == {"r1", "r2"}
\* no record: the name is not bound
NoRecord == [cls |-> "", values |-> <<>>]
\* no call on a record has been made
FieldCall(op, slot, source, cls, field, value, kwds, result, steps, notifications) ==
    [op |-> op, slot |-> slot, source |-> source, cls |-> cls,
     field |-> field, value |-> value, kwds |-> kwds, result |-> result,
     steps |-> steps, notifications |-> notifications]
NoFieldCall ==
    FieldCall("none", "", "", "", "", <<>>, <<>>, "ok", <<>>, <<>>)
\* records and formats are not in use
SchemaIdle ==
    /\ records = [slot \in Slots |-> NoRecord]
    /\ fieldCall = NoFieldCall
    /\ sample = [op |-> "none"]

\* no record object has been made and no command has been executed
ClientsIdle ==
    /\ heap = <<>>
    /\ live = <<>>
    /\ undoEdits = <<>>
    /\ redoEdits = <<>>
    /\ owned = {}
    /\ nextNumber = [g \in {"g1", "g2"} |-> 0]
    /\ command = [op |-> "none"]

(***************************************************************************)
(* Helpers for sequences.                                                  *)
(***************************************************************************)
Min(a, b) == IF a < b THEN a ELSE b
Max(a, b) == IF a > b THEN a ELSE b

SeqsUpTo(S, n) == UNION {[1..k -> S] : k \in 0..n}

Last(s) == s[Len(s)]
Front(s) == SubSeq(s, 1, Len(s) - 1)

\* Python's seq[i:j] = new for a list, with Python's clamping of the bounds
PySliceBound(i, n) == IF i < 0 THEN Max(n + i, 0) ELSE Min(i, n)

PySliceAssign(seq, i, j, new) ==
    LET lo == PySliceBound(i, Len(seq))
        hi == Max(PySliceBound(j, Len(seq)), lo)
    IN  SubSeq(seq, 1, lo) \o new \o SubSeq(seq, hi + 1, Len(seq))

(***************************************************************************)
(* Document.py: DocumentEdit and the index checks.                         *)
(***************************************************************************)
_checkEditIndex(index, maxIndex) ==
    IF index < 0 THEN "ValueError"
    ELSE IF index > maxIndex THEN "ValueError"
    ELSE "ok"

_checkEditIndices_NoOrder(startIndex, endIndex, maxIndex) ==
    IF _checkEditIndex(startIndex, maxIndex) # "ok" THEN "ValueError"
    ELSE IF _checkEditIndex(endIndex, maxIndex) # "ok" THEN "ValueError"
    ELSE "ok"

_checkEditIndices(startIndex, endIndex, maxIndex) ==
    IF _checkEditIndex(startIndex, maxIndex) # "ok" THEN "ValueError"
    ELSE IF _checkEditIndex(endIndex, maxIndex) # "ok" THEN "ValueError"
    ELSE IF endIndex < startIndex THEN "ValueError"
    ELSE "ok"

_copy_OffByOne(obs, startIndex, endIndex) ==
    [k \in 1..(endIndex - startIndex - 1) |-> obs[startIndex + k]]

\* tuple(observations[i].copy() for i in range(startIndex, endIndex))
_copy(obs, startIndex, endIndex) ==
    [k \in 1..(endIndex - startIndex) |-> obs[startIndex + k]]

NoEdit ==
    [name |-> None, startIndex |-> 0, endIndex |-> 0,
     oldObservations |-> <<>>, newObservations |-> <<>>]

\* the outcome of DocumentEdit.__init__: "ok" or the exception it raises
DocumentEditResult(doc, startIndex, endIndex, obs) ==
    _checkEditIndices(startIndex, endIndex, Len(doc))

\* the object DocumentEdit.__init__ builds when it succeeds
DocumentEdit(name, doc, startIndex, endIndex, obs) ==
    [name |-> name, startIndex |-> startIndex, endIndex |-> endIndex,
     oldObservations |-> _copy(doc, startIndex, endIndex),
     newObservations |-> _copy(obs, 0, Len(obs))]

inverse_SameRange(e) ==
    [name |-> e.name \o " Inverse", startIndex |-> e.startIndex,
     endIndex |-> e.endIndex, observations |-> e.oldObservations]

inverse_NotSwapped(e) ==
    [name |-> e.name \o " Inverse", startIndex |-> e.startIndex,
     endIndex |-> e.startIndex + Len(e.newObservations),
     observations |-> e.newObservations]

\* DocumentEdit.inverse: the arguments it constructs the inverse edit with
inverse(e) ==
    [name |-> e.name \o " Inverse", startIndex |-> e.startIndex,
     endIndex |-> e.startIndex + Len(e.newObservations),
     observations |-> e.oldObservations]

\* DocumentEdit.inverse, evaluated while the document is doc: the outcome of
\* the construction, and the edit constructed
inverseResult(e, doc) ==
    DocumentEditResult(doc, inverse(e).startIndex, inverse(e).endIndex,
                       inverse(e).observations)

inverseEdit(e, doc) ==
    DocumentEdit(inverse(e).name, doc, inverse(e).startIndex,
                 inverse(e).endIndex, inverse(e).observations)

do_InsertAtEnd(e, doc) ==
    PySliceAssign(doc, e.endIndex, e.endIndex,
                  _copy(e.newObservations, 0, Len(e.newObservations)))

\* DocumentEdit.do: the document after the edit is applied to doc
do(e, doc) ==
    PySliceAssign(doc, e.startIndex, e.endIndex,
                  _copy(e.newObservations, 0, Len(e.newObservations)))

(***************************************************************************)
(* EditHistory: two stacks of edits and the saved position.                *)
(***************************************************************************)
EditHistory_append_KeepsRedo(e) ==
    /\ undoStack' = Append(undoStack, e)
    /\ UNCHANGED <<redoStack, savedIndex>>

\* EditHistory.append(edit)
EditHistory_append(e) ==
    /\ undoStack' = Append(undoStack, e)
    /\ redoStack' = <<>>
    /\ UNCHANGED savedIndex

\* EditHistory.undoName, EditHistory.redoName
EditHistory_undoName ==
    IF Len(undoStack) = 0 THEN None ELSE Last(undoStack).name

EditHistory_redoName ==
    IF Len(redoStack) = 0 THEN None ELSE Last(redoStack).name

\* EditHistory.undo(): pop the last edit, apply its inverse, push the edit on
\* the redo stack, return the inverse.  The outcome first, then the edit
\* returned, then the change of state.
EditHistory_undoResult ==
    IF Len(undoStack) = 0 THEN "IndexError"
    ELSE inverseResult(Last(undoStack), observations)

EditHistory_undoEdit == inverseEdit(Last(undoStack), observations)

EditHistory_undo ==
    /\ observations' = do(EditHistory_undoEdit, observations)
    /\ undoStack' = Front(undoStack)
    /\ redoStack' = Append(redoStack, Last(undoStack))
    /\ UNCHANGED savedIndex

\* EditHistory.redo(): pop the last undone edit, apply it, push it on the undo
\* stack, return it.
EditHistory_redoResult == IF Len(redoStack) = 0 THEN "IndexError" ELSE "ok"

EditHistory_redoEdit == Last(redoStack)

EditHistory_redo ==
    /\ observations' = do(EditHistory_redoEdit, observations)
    /\ redoStack' = Front(redoStack)
    /\ undoStack' = Append(undoStack, Last(redoStack))
    /\ UNCHANGED savedIndex

\* EditHistory.markDocumentSaved() and EditHistory.documentSaved
markDocumentSaved == savedIndex' = Len(undoStack)

documentSaved == Len(undoStack) = savedIndex

(***************************************************************************)
(* Document: the properties that read the history.                         *)
(***************************************************************************)
saved == documentSaved

undoName_Redo == EditHistory_redoName

undoName == EditHistory_undoName

redoName == EditHistory_redoName

(***************************************************************************)
(* Listeners.                                                              *)
(***************************************************************************)
\* MainWindow._onDocumentEdit: delete [startIndex, endIndex) from the list,
\* then insert len(newObservations) items read from the document
_onDocumentEdit(list, e, doc) ==
    LET n == Len(e.newObservations)
        kept == PySliceAssign(list, e.startIndex, e.endIndex, <<>>)
        lo == Min(e.startIndex, Len(kept))
        ins == [k \in 1..n |->
                   IF e.startIndex + k \in DOMAIN doc
                   THEN doc[e.startIndex + k] ELSE 0]
    IN  SubSeq(kept, 1, lo) \o ins \o SubSeq(kept, lo + 1, Len(kept))

\* what a listener is called with, and what it can read of the document then
Notification(e, doc, uName, rName) ==
    [edit |-> e, seen |-> doc, undoName |-> uName, redoName |-> rName]

NobodyNotified == [l \in Listeners |-> <<>>]

_notifyEditListeners_FirstOnly(e, doc, uName, rName) ==
    notified' = [l \in Listeners |->
                    IF editListeners # {} /\ l = CHOOSE m \in editListeners : TRUE
                    THEN <<Notification(e, doc, uName, rName)>>
                    ELSE <<>>]

\* Document._notifyEditListeners, called while the document is doc and the
\* history shows uName and rName
_notifyEditListeners(e, doc, uName, rName) ==
    notified' = [l \in Listeners |->
                    IF l \in editListeners
                    THEN <<Notification(e, doc, uName, rName)>>
                    ELSE <<>>]

Call(op, name, startIndex, endIndex, obs, listener, result, e) ==
    [op |-> op, name |-> name, startIndex |-> startIndex, endIndex |-> endIndex,
     observations |-> obs, listener |-> listener, result |-> result, edit |-> e]

\* what the document shows: its observations, names and saved flag
Shown ==
    [observations |-> observations, undoName |-> undoName,
     redoName |-> redoName, saved |-> saved]

(***************************************************************************)
(* Initial state: Document(observations) with nothing edited, for an empty *)
(* list and for a list of three observations.                              *)
(***************************************************************************)
Init ==
    /\ observations \in {<<>>, <<1, 2, 1>>}
    /\ undoStack = <<>>
    /\ redoStack = <<>>
    /\ savedIndex = 0
    /\ editListeners = {}
    /\ notified = NobodyNotified
    /\ call = Call("init", None, 0, 0, <<>>, None, "ok", NoEdit)
    /\ undoGhost = <<>>
    /\ redoGhost = <<>>
    /\ constructed = observations
    /\ marked = observations
    /\ prior = Shown
    /\ SchemaIdle
    /\ ClientsIdle

\* a call that raised: nothing of the document changes
Raised(c) ==
    /\ call' = c
    /\ prior' = Shown
    /\ UNCHANGED <<schemaVars, clientVars>>
    /\ UNCHANGED <<observations, undoStack, redoStack, savedIndex,
                   editListeners, undoGhost, redoGhost, constructed, marked>>

(***************************************************************************)
(* Document.edit(name, startIndex, endIndex, observations)                 *)
(***************************************************************************)
edit(name, startIndex, endIndex, obs) ==
    LET result == DocumentEditResult(observations, startIndex, endIndex, obs)
        e == DocumentEdit(name, observations, startIndex, endIndex, obs)
    IN  IF result # "ok"
        THEN /\ Raised(Call("edit", None, startIndex, endIndex, <<>>, None,
                            result, NoEdit))
             /\ notified' = NobodyNotified
        ELSE /\ observations' = do(e, observations)
             /\ EditHistory_append(e)
             /\ _notifyEditListeners(e, observations', undoName', redoName')
             /\ call' = Call("edit", name, startIndex, endIndex, obs, None,
                             "ok", e)
             /\ undoGhost' = Append(undoGhost,
                                    [name |-> name, before |-> observations,
                                     after |-> observations'])
             /\ redoGhost' = <<>>
             /\ prior' = Shown
             /\ UNCHANGED <<schemaVars, clientVars>>
             /\ UNCHANGED <<editListeners, constructed, marked>>

(***************************************************************************)
(* Document.undo()                                                         *)
(***************************************************************************)
undoReturned ==
    /\ EditHistory_undo
    /\ _notifyEditListeners(EditHistory_undoEdit, observations',
                            undoName', redoName')
    /\ call' = Call("undo", None, 0, 0, <<>>, None, "ok", EditHistory_undoEdit)
    /\ undoGhost' = Front(undoGhost)
    /\ redoGhost' = Append(redoGhost, Last(undoGhost))
    /\ prior' = Shown
    /\ UNCHANGED <<schemaVars, clientVars>>
    /\ UNCHANGED <<editListeners, constructed, marked>>

undo_NotifiesAnyway ==
    IF EditHistory_undoResult # "ok"
    THEN /\ Raised(Call("undo", None, 0, 0, <<>>, None, EditHistory_undoResult,
                        NoEdit))
         /\ _notifyEditListeners(NoEdit, observations, undoName, redoName)
    ELSE undoReturned

undo ==
    IF EditHistory_undoResult # "ok"
    THEN /\ Raised(Call("undo", None, 0, 0, <<>>, None, EditHistory_undoResult,
                        NoEdit))
         /\ notified' = NobodyNotified
    ELSE undoReturned

(***************************************************************************)
(* Document.redo()                                                         *)
(***************************************************************************)
redo ==
    IF EditHistory_redoResult # "ok"
    THEN /\ Raised(Call("redo", None, 0, 0, <<>>, None, EditHistory_redoResult,
                        NoEdit))
         /\ notified' = NobodyNotified
    ELSE /\ EditHistory_redo
         /\ _notifyEditListeners(EditHistory_redoEdit, observations',
                                 undoName', redoName')
         /\ call' = Call("redo", None, 0, 0, <<>>, None, "ok",
                         EditHistory_redoEdit)
         /\ redoGhost' = Front(redoGhost)
         /\ undoGhost' = Append(undoGhost, Last(redoGhost))
         /\ prior' = Shown
         /\ UNCHANGED <<schemaVars, clientVars>>
         /\ UNCHANGED <<editListeners, constructed, marked>>

(***************************************************************************)
(* Document.markSaved()                                                    *)
(***************************************************************************)
markSaved ==
    /\ markDocumentSaved
    /\ marked' = observations
    /\ call' = Call("markSaved", None, 0, 0, <<>>, None, "ok", NoEdit)
    /\ notified' = NobodyNotified
    /\ prior' = Shown
    /\ UNCHANGED <<schemaVars, clientVars>>
    /\ UNCHANGED <<observations, undoStack, redoStack, editListeners,
                   undoGhost, redoGhost, constructed>>

(***************************************************************************)
(* Document.addEditListener(listener)                                      *)
(***************************************************************************)
addEditListener(listener) ==
    /\ editListeners' = editListeners \cup {listener}
    /\ call' = Call("addEditListener", None, 0, 0, <<>>, listener, "ok", NoEdit)
    /\ notified' = NobodyNotified
    /\ prior' = Shown
    /\ UNCHANGED <<schemaVars, clientVars>>
    /\ UNCHANGED <<observations, undoStack, redoStack, savedIndex,
                   undoGhost, redoGhost, constructed, marked>>

(***************************************************************************)
(* Document.removeEditListener(listener): set.remove raises KeyError for a *)
(* listener that is not registered.                                        *)
(***************************************************************************)
removeEditListener(listener) ==
    IF listener \notin editListeners
    THEN /\ Raised(Call("removeEditListener", None, 0, 0, <<>>, listener,
                        "KeyError", NoEdit))
         /\ notified' = NobodyNotified
    ELSE /\ editListeners' = editListeners \ {listener}
         /\ call' = Call("removeEditListener", None, 0, 0, <<>>, listener,
                         "ok", NoEdit)
         /\ notified' = NobodyNotified
         /\ prior' = Shown
         /\ UNCHANGED <<schemaVars, clientVars>>
         /\ UNCHANGED <<observations, undoStack, redoStack, savedIndex,
                        undoGhost, redoGhost, constructed, marked>>

(***************************************************************************)
(* The calls a client makes.                                               *)
(***************************************************************************)
\* the valid ranges of the document
ValidRanges ==
    {r \in (0..Len(observations)) \X (0..Len(observations)) : r[1] <= r[2]}

\* the invalid ranges of DocumentTests.testEditErrors: (-1, 0), (0, -1),
\* (5, 5), (4, 5) and (4, 3) for a document of length 4
InvalidRanges ==
    LET n == Len(observations)
    IN  {<<-1, 0>>, <<0, -1>>, <<n + 1, n + 1>>, <<n, n + 1>>, <<n, n - 1>>}

\* the name a caller passes
NextName == Names[Len(undoStack) + 1]

\* the lists a caller passes: one of each length
NewObservations == {<<>>, <<2>>, <<2, 1>>}

\* the model follows a call while the history holds fewer than depth edits
\* and the document would not grow beyond MaxLen
Followed(depth, r, obs) ==
    /\ Len(undoStack) < depth
    /\ Len(observations) - (r[2] - r[1]) + Len(obs) <= MaxLen

\* the document and its history
Next ==
    \/ \E r \in ValidRanges, obs \in NewObservations :
          Followed(MaxUndo, r, obs) /\ edit(NextName, r[1], r[2], obs)
    \/ undo
    \/ redo

Spec == Init /\ [][Next]_vars

\* the document, its history and its saved flag
NextSaved ==
    \/ \E r \in ValidRanges, obs \in NewObservations :
          Followed(MaxUndo, r, obs) /\ edit(NextName, r[1], r[2], obs)
    \/ undo
    \/ redo
    \/ markSaved

SpecSaved == Init /\ [][NextSaved]_vars

\* the document and its listeners, with calls that raise
NextListeners ==
    \/ \E r \in ValidRanges \cup InvalidRanges, obs \in NewObservations :
          Followed(MaxUndoListeners, r, obs) /\ edit(NextName, r[1], r[2], obs)
    \/ undo
    \/ redo
    \/ \E listener \in Listeners : addEditListener(listener)
    \/ \E listener \in Listeners : removeEditListener(listener)

SpecListeners == Init /\ [][NextListeners]_vars

TypeOK ==
    /\ observations \in SeqsUpTo(Vals, MaxLen)
    /\ Len(undoGhost) = Len(undoStack)
    /\ Len(redoGhost) = Len(redoStack)
    /\ savedIndex \in 0..MaxUndo
    /\ Len(undoStack) + Len(redoStack) <= MaxUndo
    /\ editListeners \subseteq Listeners

(***************************************************************************)
(* Properties of the document edit model.                                  *)
(***************************************************************************)
Committed(c) == c.op \in {"edit", "undo", "redo"} /\ c.result = "ok"

\* an edit that puts in a different number of observations than it takes out
ChangesLength(e) == Len(e.newObservations) # e.endIndex - e.startIndex

\* C1: Document.edit(name, start, end, new) with 0 <= start <= end <= len(R)
\* succeeds and leaves R[0:start] ++ new ++ R[end:]: the length is
\* len(R) - (end - start) + len(new), and every observation outside
\* [start, end) keeps its value and its relative order.
C1_EditReplacesRange ==
    [][LET R == observations
           s == call'.startIndex
           e == call'.endIndex
           new == call'.observations
       IN  (call'.op = "edit" /\ 0 <= s /\ s <= e /\ e <= Len(R)) =>
               /\ call'.result = "ok"
               /\ Len(observations') = Len(R) - (e - s) + Len(new)
               /\ \A i \in 1..s : observations'[i] = R[i]
               /\ \A k \in 1..Len(new) : observations'[s + k] = new[k]
               /\ \A i \in (e + 1)..Len(R) :
                      observations'[i - (e - s) + Len(new)] = R[i]
      ]_vars

\* C1 witness: an edit replaced an inner range by a list of another length
C1_Witness ==
    /\ call.op = "edit"
    /\ call.result = "ok"
    /\ 0 < call.startIndex
    /\ call.startIndex < call.endIndex
    /\ call.endIndex < Len(prior.observations)
    /\ Len(call.observations) = 2

\* C2: a successful undo restores the sequence that existed immediately
\* before the most recent not-yet-undone edit was applied, and when no edit
\* is left to undo the sequence is the one the document started with.
C2_UndoRestoresBefore ==
    [][(call'.op = "undo" /\ call'.result = "ok") =>
           /\ observations' = Last(undoGhost).before
           /\ (Len(undoStack') = 0 => observations' = constructed)
      ]_vars

\* C2 witness: two edits that change the length have both been undone
C2_Witness ==
    /\ call.op = "undo"
    /\ call.result = "ok"
    /\ Len(undoStack) = 0
    /\ Len(redoStack) = 2
    /\ ChangesLength(redoStack[1])
    /\ ChangesLength(redoStack[2])

\* C3: a redo after undos replays the most recently undone edit and yields
\* the sequence that existed right after that edit was first applied; undo
\* then redo, and redo then undo, leave the sequence, undoName and redoName
\* as they were.
C3_RedoReplays ==
    [][LET same == /\ observations' = prior.observations
                   /\ undoName' = prior.undoName
                   /\ redoName' = prior.redoName
       IN  /\ (call'.op = "redo" /\ call'.result = "ok") =>
                  /\ observations' = Last(redoGhost).after
                  /\ call'.edit.name = Last(redoGhost).name
                  /\ (call.op = "undo" /\ call.result = "ok") => same
           /\ (/\ call'.op = "undo" /\ call'.result = "ok"
               /\ call.op = "redo" /\ call.result = "ok") => same
      ]_vars

\* C3 witness: after two undos, one redo replayed an edit that changes the
\* length, and one undone edit is left
C3_Witness ==
    /\ call.op = "redo"
    /\ call.result = "ok"
    /\ Len(redoStack) = 1
    /\ ChangesLength(call.edit)

C5_EditClearsRedo ==
    [][/\ (call'.op = "edit" /\ call'.result = "ok") =>
              /\ Len(redoStack') = 0
              /\ redoName' = None
       /\ (call.op = "edit" /\ call.result = "ok" /\ call'.op = "redo") =>
              call'.result = "IndexError"
       /\ call'.op \in {"undo", "redo"} =>
              Len(undoStack') + Len(redoStack')
                  = Len(undoStack) + Len(redoStack)
      ]_vars

\* C5 witness: an edit was made while an undone edit could be redone
C5_Witness ==
    /\ call.op = "edit"
    /\ call.result = "ok"
    /\ prior.redoName # None

\* C6: undo with nothing to undo, and redo with nothing to redo, raise and
\* leave the sequence, both stacks and the saved flag as they were, and
\* notify no listener.
C6_EmptyUndoRedoRaise ==
    [][LET nothingDone == /\ UNCHANGED <<observations, undoStack, redoStack>>
                          /\ saved' = saved
                          /\ notified' = NobodyNotified
       IN  /\ (call'.op = "undo" /\ Len(undoStack) = 0) =>
                  (call'.result = "IndexError" /\ nothingDone)
           /\ (call'.op = "redo" /\ Len(redoStack) = 0) =>
                  (call'.result = "IndexError" /\ nothingDone)
      ]_vars

\* C6 witness: an undo raised while a listener was registered and an edit
\* could be redone
C6_Witness ==
    /\ call.op = "undo"
    /\ call.result = "IndexError"
    /\ editListeners # {}
    /\ Len(redoStack) > 0

C8_NamesAnnounceUndoRedo ==
    [][/\ undoName' = IF Len(undoGhost') = 0 THEN None
                      ELSE Last(undoGhost').name
       /\ redoName' = IF Len(redoGhost') = 0 THEN None
                      ELSE Last(redoGhost').name
       /\ call'.op = "undo" =>
              /\ undoName = None <=> call'.result # "ok"
              /\ call'.result = "ok" =>
                     call'.edit.name = undoName \o " Inverse"
       /\ call'.op = "redo" =>
              /\ redoName = None <=> call'.result # "ok"
              /\ call'.result = "ok" => call'.edit.name = redoName
      ]_vars

\* C8 witness: after two edits one was undone, so both names are present
C8_Witness ==
    /\ call.op = "undo"
    /\ call.result = "ok"
    /\ undoName = "one"
    /\ redoName = "two"

\* C9: every registered listener is called exactly once for each successful
\* edit, undo and redo, with the edit of that call, when the sequence and
\* the history already show the change; a call that raises, and a listener
\* that is not (or no longer) registered, get no notification.
C9_ListenersCalledOncePerCommit ==
    [][IF Committed(call')
       THEN \A l \in Listeners :
                notified'[l] =
                    IF l \in editListeners
                    THEN <<Notification(call'.edit, observations',
                                        undoName', redoName')>>
                    ELSE <<>>
       ELSE notified' = NobodyNotified
      ]_vars

\* C9 witness: an undo was reported to one listener after the other one had
\* been removed
C9_Witness ==
    /\ call.op = "undo"
    /\ call.result = "ok"
    /\ editListeners = {"l2"}
    /\ Len(notified["l2"]) = 1
    /\ notified["l1"] = <<>>

\* C10: the edit Document.undo passes to listeners is the inverse that was
\* applied: original start, end = start + len(original new), new = original
\* old; the edit Document.redo passes has the original range and new
\* observations; a listener that deletes [startIndex, endIndex) and inserts
\* len(newObservations) items at startIndex stays in step with the document.
C10_ListenersGetAppliedEdit ==
    [][Committed(call') =>
           \A l \in editListeners :
               /\ Len(notified'[l]) = 1
               /\ LET n == notified'[l][1].edit
                  IN  /\ call'.op = "undo" =>
                             /\ n.startIndex = Last(undoStack).startIndex
                             /\ n.endIndex = Last(undoStack).startIndex
                                    + Len(Last(undoStack).newObservations)
                             /\ n.newObservations
                                    = Last(undoStack).oldObservations
                      /\ call'.op = "redo" =>
                             /\ n.startIndex = Last(redoStack).startIndex
                             /\ n.endIndex = Last(redoStack).endIndex
                             /\ n.newObservations
                                    = Last(redoStack).newObservations
                      /\ _onDocumentEdit(observations, n, observations')
                             = observations'
      ]_vars

\* C10 witness: a listener was told of the undo of an edit that changes the
\* length and the content
C10_Witness ==
    /\ call.op = "undo"
    /\ call.result = "ok"
    /\ editListeners # {}
    /\ ChangesLength(Last(redoStack))
    /\ Last(redoStack).oldObservations # <<>>
    /\ Last(redoStack).newObservations # <<>>

(***************************************************************************)
(* Maka: observations and their fields.                                    *)
(*                                                                         *)
(* Python values.  A value is a record of its class name t, its number n   *)
(* and its characters s.  Numbers are held in tenths, so that one decimal  *)
(* place is exact: the int 2 has n = 20 and the float 2.5 has n = 25.  A   *)
(* string is the sequence of its characters, so that patterns, quoting and *)
(* tokens are computed character by character.                             *)
(***************************************************************************)
PyNone == [t |-> "NoneType", n |-> 0, s |-> <<>>]
PyInt(k) == [t |-> "int", n |-> 10 * k, s |-> <<>>]
PyFloat(tenths) == [t |-> "float", n |-> tenths, s |-> <<>>]
\* float('nan'): a float that is neither less than, equal to nor greater
\* than any number, itself included
PyNaN == [t |-> "float", n |-> 0, s |-> <<"n", "a", "n">>]
PyStr(chars) == [t |-> "str", n |-> 0, s |-> chars]

IsNumber(v) == v.t \in {"int", "float"}
IsNaN(v) == v.t = "float" /\ v.s # <<>>

\* a == b, a < b and a > b of Python (a <= b is a < b or a == b)
PyEq(a, b) ==
    IF IsNumber(a) /\ IsNumber(b)
    THEN ~IsNaN(a) /\ ~IsNaN(b) /\ a.n = b.n
    ELSE a = b
PyLt(a, b) == ~IsNaN(a) /\ ~IsNaN(b) /\ a.n < b.n
PyGt(a, b) == ~IsNaN(a) /\ ~IsNaN(b) /\ a.n > b.n

Digits == <<"0", "1", "2", "3", "4", "5", "6", "7", "8", "9">>
AllDigits(chars) ==
    \A i \in 1..Len(chars) : \E d \in 1..10 : Digits[d] = chars[i]

\* the number a sequence of digits denotes
RECURSIVE DigitsValue(_)
DigitsValue(chars) ==
    IF chars = <<>> THEN 0
    ELSE 10 * DigitsValue(Front(chars))
         + (CHOOSE d \in 1..10 : Digits[d] = Last(chars)) - 1

\* the position of the first c in chars, or 0
IndexOf(chars, c) ==
    IF \E i \in 1..Len(chars) : chars[i] = c
    THEN CHOOSE i \in 1..Len(chars) :
             chars[i] = c /\ \A j \in 1..(i - 1) : chars[j] # c
    ELSE 0

\* _DECIMAL_RE = ^-?(\d+\.?|\d*\.\d+)$
_DECIMAL_RE(chars) ==
    LET body == IF chars # <<>> /\ chars[1] = "-" THEN Tail(chars) ELSE chars
        dot == IndexOf(body, ".")
        whole == IF dot = 0 THEN body ELSE SubSeq(body, 1, dot - 1)
        frac == IF dot = 0 THEN <<>> ELSE SubSeq(body, dot + 1, Len(body))
    IN  /\ AllDigits(whole)
        /\ AllDigits(frac)
        /\ \/ whole # <<>>
           \/ dot # 0 /\ frac # <<>>
        /\ dot = 0 => whole # <<>>

\* float(s) of a decimal number string, in tenths (exact for the strings
\* of the model, which have at most one decimal place)
DecimalTenths(chars) ==
    LET negative == chars # <<>> /\ chars[1] = "-"
        body == IF negative THEN Tail(chars) ELSE chars
        dot == IndexOf(body, ".")
        whole == IF dot = 0 THEN body ELSE SubSeq(body, 1, dot - 1)
        frac == IF dot = 0 THEN <<>> ELSE SubSeq(body, dot + 1, Len(body))
        tenths == 10 * DigitsValue(whole)
                  + (IF frac = <<>> THEN 0 ELSE DigitsValue(<<frac[1]>>))
    IN  IF negative THEN 0 - tenths ELSE tenths

\* _float(x): float(x), or None for None
_float(x) ==
    IF x = PyNone THEN PyNone
    ELSE IF x.t = "str" THEN PyFloat(DecimalTenths(x.s))
    ELSE IF IsNaN(x) THEN x
    ELSE PyFloat(x.n)

(***************************************************************************)
(* Field.py: the field classes.  A field is a record of its class and of   *)
(* the keyword arguments it was built with; an absent min, max or default  *)
(* is None, an absent translation dictionary translates nothing.           *)
(***************************************************************************)
Field ==
    [cls |-> "Field", min |-> PyNone, max |-> PyNone,
     minInclusive |-> TRUE, maxInclusive |-> TRUE,
     hasValues |-> FALSE, values |-> {}, translations |-> {},
     default |-> PyNone]
String == [Field EXCEPT !.cls = "String"]
Integer == [Field EXCEPT !.cls = "Integer"]
Float == [Field EXCEPT !.cls = "Float"]
Decimal == [Field EXCEPT !.cls = "Decimal"]

\* _valueClasses: the classes a value of the field may be an instance of
_valueClasses(f) ==
    CASE f.cls = "String" -> {"str"}
      [] f.cls = "Integer" -> {"int"}
      [] f.cls = "Float" -> {"float", "int"}
      [] f.cls = "Decimal" -> {"str"}
      [] OTHER -> {}

\* Field._typeCheck and Decimal._typeCheck
_typeCheck(f, value) ==
    IF value # PyNone /\ f.cls # "Field" /\ value.t \notin _valueClasses(f)
    THEN "TypeError"
    ELSE IF f.cls = "Decimal" /\ value # PyNone /\ ~_DECIMAL_RE(value.s)
    THEN "TypeError"
    ELSE "ok"

\* Integer._rangeCheck: both bounds are inclusive
Integer_rangeCheck(f, value) ==
    IF value = PyNone THEN "ok"
    ELSE IF f.min # PyNone /\ PyLt(value, f.min) THEN "ValueError"
    ELSE IF f.max # PyNone /\ PyGt(value, f.max) THEN "ValueError"
    ELSE "ok"

\* Float._rangeCheck and Decimal._rangeCheck: the value (for Decimal, its
\* float) against the floats of min and max
Float_rangeCheck(f, value) ==
    LET v == _float(value)
        lo == _float(f.min)
        hi == _float(f.max)
    IN  IF value = PyNone THEN "ok"
        ELSE IF lo # PyNone /\ f.minInclusive /\ PyLt(v, lo) THEN "ValueError"
        ELSE IF lo # PyNone /\ ~f.minInclusive /\ (PyLt(v, lo) \/ PyEq(v, lo))
        THEN "ValueError"
        ELSE IF hi # PyNone /\ f.maxInclusive /\ PyGt(v, hi) THEN "ValueError"
        ELSE IF hi # PyNone /\ ~f.maxInclusive /\ (PyGt(v, hi) \/ PyEq(v, hi))
        THEN "ValueError"
        ELSE "ok"

\* String._rangeCheck: membership in the values of the field
String_rangeCheck(f, value) ==
    IF value # PyNone /\ f.hasValues /\ value.s \notin f.values
    THEN "ValueError" ELSE "ok"

_rangeCheck(f, value) ==
    CASE f.cls = "String" -> String_rangeCheck(f, value)
      [] f.cls = "Integer" -> Integer_rangeCheck(f, value)
      [] f.cls \in {"Float", "Decimal"} -> Float_rangeCheck(f, value)
      [] OTHER -> "ok"

\* Field._check: the type, then the range
_check(f, value) ==
    IF _typeCheck(f, value) # "ok" THEN _typeCheck(f, value)
    ELSE _rangeCheck(f, value)

\* what _setValue checks before it stores: None is stored unchecked
Validate(f, value) == IF value = PyNone THEN "ok" ELSE _check(f, value)

\* dict.get(value, value) of the translations of a String field
Translate(f, value) ==
    IF value.t = "str" /\ \E p \in f.translations : p[1] = value.s
    THEN PyStr((CHOOSE p \in f.translations : p[1] = value.s)[2])
    ELSE value

\* Field.__init__ and its subclasses: the checks on the arguments
FieldInit(f) ==
    IF _typeCheck(f, f.default) # "ok" THEN "TypeError"
    ELSE IF f.cls = "String"
    THEN IF \E v \in f.values : _typeCheck(f, PyStr(v)) # "ok" THEN "TypeError"
         ELSE IF String_rangeCheck(f, f.default) # "ok" THEN "ValueError"
         ELSE IF \E p \in f.translations :
                     String_rangeCheck(f, PyStr(p[2])) # "ok"
         THEN "ValueError"
         ELSE "ok"
    ELSE IF f.cls \in {"Integer", "Float", "Decimal"}
    THEN IF _typeCheck(f, f.min) # "ok" \/ _typeCheck(f, f.max) # "ok"
         THEN "TypeError"
         ELSE _rangeCheck(f, f.default)
    ELSE "ok"

(***************************************************************************)
(* Observation.py: observation classes.  A class definition is a record of *)
(* its parents (the bases, in order) and of its attrs (the fields its body *)
(* declares, by name); classes is a function from class names to class     *)
(* definitions.  A field object is known by the class that declares it and *)
(* its name.                                                               *)
(***************************************************************************)
\* class Observation itself: no parent that is an observation class, no field
ObservationClass == [parents |-> <<>>, attrs |-> <<>>]

\* field names are single lowercase letters, ordered as Python orders them
Lowercase ==
    <<"a", "b", "c", "d", "e", "f", "g", "h", "i", "j", "k", "l", "m",
      "n", "o", "p", "q", "r", "s", "t", "u", "v", "w", "x", "y", "z">>
Ord(c) == CHOOSE i \in 1..Len(Lowercase) : Lowercase[i] = c

\* sorted(names)
RECURSIVE sorted(_)
sorted(names) ==
    IF names = {} THEN <<>>
    ELSE LET first == CHOOSE x \in names : \A y \in names : Ord(x) <= Ord(y)
         IN  <<first>> \o sorted(names \ {first})

\* _getNewFields(attrs): the fields the class body declares, each with the
\* class as its owner
_getNewFields(classes, c) ==
    [name \in DOMAIN classes[c].attrs |-> c]

\* cls.FIELDS as a dictionary from field names to the owners of the fields,
\* as _Metaclass.__new__ accumulates it:
\*     fields = _accumulateParentFields(parents)   (in reverse order, each
\*                                                  parent updating the rest)
\*     fields.update(_getNewFields(attrs))
RECURSIVE FieldOwners(_, _)
RECURSIVE _accumulateParentFields(_, _)
_accumulateParentFields(classes, parents) ==
    IF parents = <<>> THEN <<>>
    ELSE FieldOwners(classes, Head(parents))
         @@ _accumulateParentFields(classes, Tail(parents))

FieldOwners(classes, c) ==
    _getNewFields(classes, c)
    @@ _accumulateParentFields(classes, classes[c].parents)

\* cls.FIELDS: the fields in the order of their sorted names
FIELDS(classes, c) ==
    LET fields == FieldOwners(classes, c)
        names == sorted(DOMAIN fields)
    IN  [i \in 1..Len(names) |-> [name |-> names[i], owner |-> fields[names[i]]]]

\* the field object: the attribute of its owner
FieldObject(classes, owner, name) == classes[owner].attrs[name]

\* Python's method resolution order (C3 linearization): the merge takes, as
\* long as a list is left, the first head that is in the tail of no list
RECURSIVE C3Merge(_)
C3Merge(lists) ==
    LET left == SelectSeq(lists, LAMBDA l : l # <<>>)
        InNoTail(i) ==
            \A j \in 1..Len(left) : \A k \in 2..Len(left[j]) :
                left[j][k] # left[i][1]
        candidates == {i \in 1..Len(left) : InNoTail(i)}
    IN  IF left = <<>> \/ candidates = {} THEN <<>>
        ELSE LET next == left[CHOOSE i \in candidates :
                                  \A j \in candidates : i <= j][1]
             IN  <<next>>
                 \o C3Merge([j \in 1..Len(left) |->
                               IF left[j][1] = next THEN Tail(left[j])
                               ELSE left[j]])

RECURSIVE __mro__(_, _)
__mro__(classes, c) ==
    LET parents == classes[c].parents
    IN  <<c>> \o C3Merge([i \in 1..Len(parents) |->
                             __mro__(classes, parents[i])]
                         \o <<parents>>)

\* the classes of the resolution order that declare the field
Declaring(classes, c, name) ==
    SelectSeq(__mro__(classes, c), LAMBDA k : name \in DOMAIN classes[k].attrs)

\* getattr(cls, name) for a field name: the owner of the descriptor that
\* attribute lookup finds, the first class of the resolution order that
\* declares it
AttributeOwner(classes, c, name) == Declaring(classes, c, name)[1]

(***************************************************************************)
(* Field._setValue, String._setValue and Float._setValue: the value is     *)
(* translated (String, when asked to), checked unless it is None, and      *)
(* stored (Float stores its float); nothing is stored when the check       *)
(* raises.  No notification.                                               *)
(***************************************************************************)
_setValue(f, value, translate) ==
    LET v == IF f.cls = "String" /\ translate THEN Translate(f, value)
             ELSE value
        Store(raised) ==
            IF raised # "ok"
            THEN [result |-> raised, stored |-> PyNone]
            ELSE [result |-> "ok",
                  stored |-> IF f.cls = "Float" THEN _float(v) ELSE v]
    IN  Store(Validate(f, v))

(***************************************************************************)
(* Field.__set__ and String.__set__ for the field called name of a record   *)
(* that stores oldValue: what is raised, what the record stores afterwards, *)
(* the steps taken and the notifications issued.                            *)
(***************************************************************************)
__set___Always(f, name, oldValue, value) ==
    LET v == IF f.cls = "String" THEN Translate(f, value) ELSE value
        first == IF f.cls = "String" /\ f.translations # {}
                 THEN <<"translate">> ELSE <<>>
        set == _setValue(f, v, FALSE)
    IN  IF set.result # "ok"
        THEN [result |-> set.result, stored |-> oldValue,
              steps |-> first \o <<"validate">>, notifications |-> <<>>]
        ELSE [result |-> "ok", stored |-> set.stored,
              steps |-> first \o <<"validate", "store", "notify">>,
              notifications |-> <<[fieldName |-> name, oldValue |-> oldValue,
                                   newValue |-> v]>>]

__set__(f, name, oldValue, value) ==
    LET v == IF f.cls = "String" THEN Translate(f, value) ELSE value
        first == IF f.cls = "String" /\ f.translations # {}
                 THEN <<"translate">> ELSE <<>>
        set == _setValue(f, v, FALSE)
    IN  IF PyEq(v, oldValue)
        THEN [result |-> "ok", stored |-> oldValue,
              steps |-> first \o <<"compare">>, notifications |-> <<>>]
        ELSE IF set.result # "ok"
        THEN [result |-> set.result, stored |-> oldValue,
              steps |-> first \o <<"compare", "validate">>,
              notifications |-> <<>>]
        ELSE [result |-> "ok", stored |-> set.stored,
              steps |-> first \o <<"compare", "validate", "store", "notify">>,
              notifications |-> <<[fieldName |-> name, oldValue |-> oldValue,
                                   newValue |-> v]>>]

(***************************************************************************)
(* The class object that the class statement of c makes: its name, its     *)
(* FIELDS (the field objects, in the order of their names) and, for every  *)
(* field name, the descriptor that attribute lookup on the class finds.    *)
(***************************************************************************)
ClassObject(classes, c) ==
    LET fields == FIELDS(classes, c)
    IN  [name |-> c,
         FIELDS |-> SubSeq([i \in 1..Len(fields) |->
                               [name |-> fields[i].name,
                                field |-> FieldObject(classes, fields[i].owner,
                                                      fields[i].name)]],
                           1, Len(fields)),
         descriptors |-> [i \in 1..Len(fields) |->
                            FieldObject(classes,
                                        AttributeOwner(classes, c,
                                                       fields[i].name),
                                        fields[i].name)]]

(***************************************************************************)
(* Observation.__init__(kwds) of the class cls: every field of cls.FIELDS, *)
(* in order, is set with _setValue to its keyword value or else to its     *)
(* default; the first value that fails its check ends the construction.    *)
(***************************************************************************)
Observation__init__(cls, kwds) ==
    LET fields == cls.FIELDS
        Made(results) ==
            LET failed == {i \in 1..Len(fields) : results[i].result # "ok"}
            IN  IF failed # {}
                THEN [result |-> results[CHOOSE i \in failed :
                                        \A j \in failed : i <= j].result,
                      record |-> NoRecord]
                ELSE [result |-> "ok",
                      record |-> [cls |-> cls.name,
                                  values |-> [name \in {fields[i].name :
                                                          i \in 1..Len(fields)} |->
                                                results[CHOOSE i \in 1..Len(fields) :
                                                      fields[i].name = name].stored]]]
    IN  Made([i \in 1..Len(fields) |->
                 _setValue(fields[i].field,
                           IF fields[i].name \in DOMAIN kwds
                           THEN kwds[fields[i].name]
                           ELSE fields[i].field.default,
                           TRUE)])

\* Observation.copy(kwds) of a record of the class cls: the constructor
\* called with the field values of the record, updated with kwds
Observation_copy(cls, record, kwds) ==
    Observation__init__(cls, kwds @@ record.values)

(***************************************************************************)
(* The document is not in use: Document() with nothing edited.             *)
(***************************************************************************)
DocumentIdle ==
    /\ observations = <<>>
    /\ undoStack = <<>>
    /\ redoStack = <<>>
    /\ savedIndex = 0
    /\ editListeners = {}
    /\ notified = NobodyNotified
    /\ call = Call("init", None, 0, 0, <<>>, None, "ok", NoEdit)
    /\ undoGhost = <<>>
    /\ redoGhost = <<>>
    /\ constructed = <<>>
    /\ marked = <<>>
    /\ prior = Shown

(***************************************************************************)
(* Validation of one value by one field.  The fields are those of          *)
(* IntegerFieldTests, FloatFieldTests and DecimalFieldTests: min is None   *)
(* or 1, max is None or 3, each bound inclusive or exclusive.              *)
(***************************************************************************)
CheckInit ==
    /\ DocumentIdle
    /\ ClientsIdle
    /\ records = [slot \in Slots |-> NoRecord]
    /\ fieldCall = NoFieldCall
    /\ LET CheckedFields ==
            {[Integer EXCEPT !.min = lo, !.max = hi] :
                lo \in {PyNone, PyInt(1)}, hi \in {PyNone, PyInt(3)}}
            \cup
            {[Float EXCEPT !.min = lo, !.max = hi,
                           !.minInclusive = li, !.maxInclusive = hi_] :
                lo \in {PyNone, PyInt(1)}, hi \in {PyNone, PyInt(3)},
                li \in BOOLEAN, hi_ \in BOOLEAN}
            \cup
            {[Decimal EXCEPT !.min = lo, !.max = hi,
                             !.minInclusive = li, !.maxInclusive = hi_] :
                lo \in {PyNone, PyStr(<<"1">>)}, hi \in {PyNone, PyStr(<<"3">>)},
                li \in BOOLEAN, hi_ \in BOOLEAN}
           \* the values a caller passes: None, ints, floats, nan, decimal
           \* number strings and other strings
           CheckedValues ==
            {PyNone, PyNaN}
            \cup {PyInt(k) : k \in 0..4}
            \cup {PyFloat(t) : t \in {5, 10, 15, 30, 35}}
            \cup {PyStr(c) : c \in {<<>>, <<"0">>, <<"1">>, <<"1", ".">>,
                                    <<"1", ".", "0">>, <<".", "5">>, <<"2">>,
                                    <<"3">>, <<"3", ".", "5">>, <<"-", "1">>,
                                    <<"4">>, <<".">>, <<"1", "e", "1">>, <<"x">>}}
       IN  sample \in {[op |-> "check", field |-> f, value |-> v,
                        done |-> FALSE, result |-> "ok"] :
                          f \in CheckedFields, v \in CheckedValues}

\* the field validates the value
check ==
    /\ sample.op = "check"
    /\ ~sample.done
    /\ sample' = [sample EXCEPT !.done = TRUE,
                                !.result = Validate(sample.field, sample.value)]
    /\ UNCHANGED <<docVars, clientVars, records, fieldCall>>

SpecCheck == CheckInit /\ [][check]_vars

(***************************************************************************)
(* Properties of field validation.                                         *)
(***************************************************************************)
\* the value is of a class the field accepts (for Decimal, a decimal
\* number string)
AcceptedType(f, v) ==
    /\ v.t \in _valueClasses(f)
    /\ f.cls = "Decimal" => _DECIMAL_RE(v.s)

\* the number a value stands for; nan stands for none
HasNumber(v) == ~IsNaN(v)
NumberOf(v) == IF v.t = "str" THEN DecimalTenths(v.s) ELSE v.n

\* the value lies within the bounds the field declares
InDeclaredRange(f, v) ==
    /\ \/ f.min = PyNone
       \/ HasNumber(v) /\ NumberOf(v) > NumberOf(f.min)
       \/ f.minInclusive /\ HasNumber(v) /\ NumberOf(v) = NumberOf(f.min)
    /\ \/ f.max = PyNone
       \/ HasNumber(v) /\ NumberOf(v) < NumberOf(f.max)
       \/ f.maxInclusive /\ HasNumber(v) /\ NumberOf(v) = NumberOf(f.max)

\* C14: an Integer, Float or Decimal field accepts None, raises a type
\* error for a value of a class it does not accept, and accepts a value of
\* an accepted class exactly when the value is above min (or equal to an
\* inclusive min) and below max (or equal to an inclusive max), raising a
\* range error otherwise.
C14_ValueAcceptedIffInRange ==
    sample.op = "check" /\ sample.done =>
        LET f == sample.field
            v == sample.value
        IN  sample.result =
                IF v = PyNone THEN "ok"
                ELSE IF ~AcceptedType(f, v) THEN "TypeError"
                ELSE IF InDeclaredRange(f, v) THEN "ok"
                ELSE "ValueError"

(***************************************************************************)
(* Observation classes built from class definitions.  The definitions are  *)
(* those of ObservationTests (A and B are observation classes, C derives   *)
(* from A and B, D from C), a chain, and classes with a common ancestor    *)
(* reached along two lines of descent.  Every class declares some of the   *)
(* fields a and x, each class with a field class of its own.               *)
(***************************************************************************)
ClassNames == {"A", "B", "C", "D"}

\* the field a class declares under any name
DeclaredField ==
    [A |-> [Integer EXCEPT !.max = PyInt(5)],
     B |-> [Integer EXCEPT !.max = PyInt(3)],
     C |-> String,
     D |-> Float]

\* the class definitions of a shape in which each class k declares the
\* fields declares[k]
ClassesOf(shape, declares) ==
    [k \in ClassNames \cup {"Observation"} |->
        IF k = "Observation" THEN ObservationClass
        ELSE [parents |-> shape[k],
              attrs |-> [name \in declares[k] |-> DeclaredField[k]]]]

ComposeInit ==
    /\ DocumentIdle
    /\ ClientsIdle
    /\ records = [slot \in Slots |-> NoRecord]
    /\ fieldCall = NoFieldCall
    /\ LET \* the parents of A, B, C and D
           Shapes ==
            {[A |-> <<"Observation">>, B |-> <<"Observation">>, C |-> <<"A", "B">>,
              D |-> <<"C">>],
             [A |-> <<"Observation">>, B |-> <<"A">>, C |-> <<"B">>, D |-> <<"C">>],
             [A |-> <<"Observation">>, B |-> <<"A">>, C |-> <<"A">>,
              D |-> <<"C", "B">>],
             [A |-> <<"Observation">>, B |-> <<"A">>, C |-> <<"A">>,
              D |-> <<"B", "C">>]}
       IN  sample \in {[op |-> "compose", shape |-> shape,
                        declares |-> declares, cls |-> c, done |-> FALSE,
                        result |-> <<>>] :
                          shape \in Shapes,
                          declares \in [ClassNames -> SUBSET {"a", "x"}],
                          c \in ClassNames}

\* the class statement: _Metaclass.__new__ sets cls.FIELDS
compose ==
    /\ sample.op = "compose"
    /\ ~sample.done
    /\ sample' = [sample EXCEPT
                    !.done = TRUE,
                    !.result = FIELDS(ClassesOf(sample.shape, sample.declares),
                                      sample.cls)]
    /\ UNCHANGED <<docVars, clientVars, records, fieldCall>>

SpecCompose == ComposeInit /\ [][compose]_vars

(***************************************************************************)
(* Properties of the composition of observation classes.                   *)
(***************************************************************************)
\* the ancestors of a class, the class included
RECURSIVE Ancestors(_, _)
Ancestors(classes, c) ==
    {c} \cup UNION {Ancestors(classes, classes[c].parents[i]) :
                      i \in 1..Len(classes[c].parents)}

\* C15: the field list of a class is the sorted union of the field names of
\* the class and all its ancestors, each name once, and each name is that of
\* a most specific declaration: no class among the ancestors that declares
\* the name is a descendant of the class whose declaration is listed.
C15_FieldsAreMostSpecific ==
    sample.op = "compose" /\ sample.done =>
        LET classes == ClassesOf(sample.shape, sample.declares)
            all == Ancestors(classes, sample.cls)
            names == UNION {DOMAIN classes[k].attrs : k \in all}
            fields == sample.result
        IN  /\ {fields[i].name : i \in 1..Len(fields)} = names
            /\ \A i \in 1..Len(fields) : \A j \in 1..Len(fields) :
                   i < j => Ord(fields[i].name) < Ord(fields[j].name)
            /\ \A i \in 1..Len(fields) :
                   /\ fields[i].owner \in all
                   /\ fields[i].name \in DOMAIN classes[fields[i].owner].attrs
                   /\ \A k \in all \ {fields[i].owner} :
                          fields[i].name \in DOMAIN classes[k].attrs
                              => fields[i].owner \notin Ancestors(classes, k)

(***************************************************************************)
(* Records: observations that are constructed, assigned to and copied.     *)
(*                                                                         *)
(* Obs has a String field s with the values A and B and the translation of *)
(* a to A, and a Float field v in (1, 3].  T has a String field s whose    *)
(* translations take a to A and A to B.  D derives from C and B, which    *)
(* both derive from A; A declares the Integer field x with max 3 and B     *)
(* declares it again with min 2.                                           *)
(***************************************************************************)
RecordClasses ==
    [k \in {"Observation", "Obs", "T", "A", "B", "C", "D"} |->
        CASE k = "Observation" -> ObservationClass
          [] k = "Obs" ->
               [parents |-> <<"Observation">>,
                attrs |-> [name \in {"s", "v"} |->
                    IF name = "s"
                    THEN [String EXCEPT !.hasValues = TRUE,
                                        !.values = {<<"A">>, <<"B">>},
                                        !.translations = {<< <<"a">>, <<"A">> >>}]
                    ELSE [Float EXCEPT !.min = PyInt(1), !.max = PyInt(3),
                                       !.minInclusive = FALSE]]]
          [] k = "T" ->
               [parents |-> <<"Observation">>,
                attrs |-> [name \in {"s"} |->
                    [String EXCEPT !.translations = {<< <<"a">>, <<"A">> >>,
                                                     << <<"A">>, <<"B">> >>}]]]
          [] k = "A" ->
               [parents |-> <<"Observation">>,
                attrs |-> [name \in {"x"} |-> [Integer EXCEPT !.max = PyInt(3)]]]
          [] k = "B" ->
               [parents |-> <<"A">>,
                attrs |-> [name \in {"x"} |-> [Integer EXCEPT !.min = PyInt(2)]]]
          [] k = "C" -> [parents |-> <<"A">>, attrs |-> <<>>]
          [] k = "D" -> [parents |-> <<"C", "B">>, attrs |-> <<>>]]

\* the classes a client instantiates
Instantiated == {"Obs", "T", "A", "D"}

\* the values a client passes for a field: valid ones, values out of range
\* and values of another class
PassedValues ==
    [s |-> {PyNone, PyStr(<<"A">>), PyStr(<<"B">>), PyStr(<<"a">>),
            PyStr(<<"C">>)},
     v |-> {PyNone, PyInt(2), PyInt(1)},
     x |-> {PyNone, PyInt(1), PyInt(4), PyFloat(10)}]

\* the class objects of the instantiated classes
RecordTypes == {ClassObject(RecordClasses, c) : c \in Instantiated}
Class(c) == CHOOSE cls \in RecordTypes : cls.name = c

\* the position of a field in the field list of its class
FieldIndex(c, name) ==
    CHOOSE i \in 1..Len(Class(c).FIELDS) : Class(c).FIELDS[i].name = name

\* the names of the fields of a class
FieldNames(c) ==
    {Class(c).FIELDS[i].name : i \in 1..Len(Class(c).FIELDS)}

\* the keyword arguments a client passes: none, or a value for one field
Kwds(c) ==
    {<<>>} \cup UNION {{[n \in {name} |-> value] : value \in PassedValues[name]} :
                           name \in FieldNames(c)}

\* the field the field list of the class has for a name
ListedField(c, name) == Class(c).FIELDS[FieldIndex(c, name)].field

\* the descriptor that an assignment to the field of a record of class c
\* goes through
Descriptor(c, name) == Class(c).descriptors[FieldIndex(c, name)]

\* record = cls(kwds), bound to the name slot
construct(slot, c, kwds) ==
    LET made == Observation__init__(Class(c), kwds)
    IN  /\ records' = IF made.result = "ok"
                      THEN [records EXCEPT ![slot] = made.record]
                      ELSE records
        /\ fieldCall' = FieldCall("construct", slot, "", c, "", <<>>, kwds,
                                  made.result, <<>>, <<>>)
        /\ UNCHANGED <<docVars, clientVars, sample>>

\* record.name = value
set(slot, name, value) ==
    LET record == records[slot]
        done == __set__(Descriptor(record.cls, name), name,
                        record.values[name], value)
    IN  /\ record # NoRecord
        /\ name \in DOMAIN record.values
        /\ records' = [records EXCEPT ![slot].values[name] = done.stored]
        /\ fieldCall' = FieldCall("set", slot, "", record.cls, name, value,
                                  <<>>, done.result, done.steps,
                                  done.notifications)
        /\ UNCHANGED <<docVars, clientVars, sample>>

\* record = source.copy(kwds), bound to the other name slot
copy(source, slot, kwds) ==
    LET made == Observation_copy(Class(records[source].cls), records[source], kwds)
    IN  /\ records[source] # NoRecord
        /\ source # slot
        /\ kwds \in Kwds(records[source].cls)
        /\ records' = IF made.result = "ok"
                      THEN [records EXCEPT ![slot] = made.record]
                      ELSE records
        /\ fieldCall' = FieldCall("copy", slot, source, records[source].cls,
                                  "", <<>>, kwds, made.result, <<>>, <<>>)
        /\ UNCHANGED <<docVars, clientVars, sample>>

RecordsInit ==
    /\ DocumentIdle
    /\ ClientsIdle
    /\ SchemaIdle

\* the constructor calls of the clients
Constructions ==
    UNION {{[cls |-> c, kwds |-> kwds] : kwds \in Kwds(c)} : c \in Instantiated}

RecordsNext ==
    \/ \E slot \in Slots, made \in Constructions :
          construct(slot, made.cls, made.kwds)
    \/ \E slot \in Slots, name \in DOMAIN PassedValues :
          \E value \in PassedValues[name] : set(slot, name, value)
    \/ \E source \in Slots, slot \in Slots, made \in Constructions :
          copy(source, slot, made.kwds)

SpecRecords == RecordsInit /\ [][RecordsNext]_vars

(***************************************************************************)
(* Properties of records and field assignment.                             *)
(***************************************************************************)
\* C11: every value stored in a field of a record is None or passes the
\* type and range validation of the field type that the record type has
\* for that field.
C11_StoredValuesAreValid ==
    \A slot \in Slots : \A name \in DOMAIN records[slot].values :
        \/ records[slot].values[name] = PyNone
        \/ _check(ListedField(records[slot].cls, name),
                  records[slot].values[name]) = "ok"

\* the value that an assignment compares and validates: the translated one
Assigned(c) == Translate(Descriptor(c.cls, c.field), c.value)

\* C12: an assignment of a value that fails the validation of its field
\* raises, changes no field of any record and notifies nobody; a
\* construction in which a supplied or default value fails validation
\* raises and yields no record.
C12_InvalidValueRaises ==
    [][/\ (fieldCall'.op = "set"
           /\ Validate(Descriptor(fieldCall'.cls, fieldCall'.field),
                       Assigned(fieldCall')) # "ok")
          => /\ fieldCall'.result # "ok"
             /\ records' = records
             /\ fieldCall'.notifications = <<>>
       /\ (fieldCall'.op = "construct"
           /\ \E name \in FieldNames(fieldCall'.cls) :
                 LET f == ListedField(fieldCall'.cls, name)
                 IN  Validate(f, Translate(f,
                         IF name \in DOMAIN fieldCall'.kwds
                         THEN fieldCall'.kwds[name] ELSE f.default)) # "ok")
          => /\ fieldCall'.result # "ok"
             /\ records' = records]_vars

\* C13: an assignment takes its steps in a fixed order: the value of a
\* String field with translations is translated first, then compared with
\* the stored value; when they are equal nothing else happens (no
\* validation, no store, no notification, no change); when they differ the
\* value is validated, then stored, then exactly one notification
\* (fieldName, oldValue, newValue) is issued.
C13_AssignmentStepsInOrder ==
    [][fieldCall'.op = "set" =>
          LET c == fieldCall'
              f == Descriptor(c.cls, c.field)
              old == records[c.slot].values[c.field]
              first == IF f.cls = "String" /\ f.translations # {}
                       THEN <<"translate">> ELSE <<>>
          IN  IF PyEq(Assigned(c), old)
              THEN /\ c.steps = first \o <<"compare">>
                   /\ c.result = "ok"
                   /\ c.notifications = <<>>
                   /\ records' = records
              ELSE \/ /\ c.result # "ok"
                      /\ c.steps = first \o <<"compare", "validate">>
                      /\ c.notifications = <<>>
                      /\ records' = records
                   \/ /\ c.result = "ok"
                      /\ c.steps = first \o <<"compare", "validate", "store",
                                               "notify">>
                      /\ c.notifications =
                             <<[fieldName |-> c.field, oldValue |-> old,
                                newValue |-> Assigned(c)]>>
                      /\ PyEq(records'[c.slot].values[c.field], Assigned(c))]_vars

\* the alias a was assigned to a String field that stores A: the value was
\* translated and compared, and nothing else happened
C13_Witness ==
    /\ fieldCall.op = "set"
    /\ fieldCall.field = "s"
    /\ fieldCall.value = PyStr(<<"a">>)
    /\ records[fieldCall.slot].values["s"] = PyStr(<<"A">>)
    /\ fieldCall.steps = <<"translate", "compare">>
    /\ fieldCall.notifications = <<>>

(***************************************************************************)
(* SimpleDocumentFormat.py: field formats.  A formatted value, a token and *)
(* a line are sequences of characters.                                     *)
(***************************************************************************)
_EDITING_NONE == <<>>

\* maka.util.TokenUtils.NONE_TOKEN, imported as FORMATTED_NONE: the token ""
FORMATTED_NONE == <<"\"", "\"">>

\* str.replace(old, new), from left to right without overlaps
RECURSIVE replace(_, _, _)
replace(chars, old, new) ==
    IF Len(chars) < Len(old) THEN chars
    ELSE IF SubSeq(chars, 1, Len(old)) = old
    THEN new \o replace(SubSeq(chars, Len(old) + 1, Len(chars)), old, new)
    ELSE <<chars[1]>> \o replace(Tail(chars), old, new)

_escapeString(chars) ==
    replace(replace(chars, <<"\\">>, <<"\\", "\\">>), <<"\"">>, <<"\\", "\"">>)

_unescapeString(chars) ==
    replace(replace(chars, <<"\\", "\\">>, <<"\\">>), <<"\\", "\"">>, <<"\"">>)

\* '{:d}'.format(k) for an int k
RECURSIVE IntChars(_)
IntChars(k) ==
    IF k < 0 THEN <<"-">> \o IntChars(0 - k)
    ELSE IF k < 10 THEN <<Digits[k + 1]>>
    ELSE IntChars(k \div 10) \o <<Digits[(k % 10) + 1]>>

\* int(s) and float(s) of a token: an optional sign and then digits (int),
\* a decimal number or nan (float); anything else raises ValueError
ParseNumber(chars, class) ==
    LET negative == chars # <<>> /\ chars[1] = "-"
        body == IF chars # <<>> /\ chars[1] \in {"-", "+"} THEN Tail(chars)
                ELSE chars
        Signed(k) == IF negative THEN 0 - k ELSE k
    IN  IF class = "int" /\ body # <<>> /\ AllDigits(body)
        THEN [result |-> "ok", value |-> PyInt(Signed(DigitsValue(body)))]
        ELSE IF class = "float" /\ body = <<"n", "a", "n">>
        THEN [result |-> "ok", value |-> PyNaN]
        ELSE IF class = "float" /\ _DECIMAL_RE(body) /\ body[1] # "-"
        THEN [result |-> "ok", value |-> PyFloat(Signed(DecimalTenths(body)))]
        ELSE [result |-> "ValueError", value |-> PyNone]

\* the format object of a field format class (StringFormat, DecimalFormat,
\* IntegerFormat, FloatFormat, AngleFormat, DateFormat): args is empty or
\* holds the replacement field given in the format string.  An angle is a
\* float given as the fraction num / den of a degree, or a number of the
\* other formats; a date has its year, month and day.
FieldFormat(class, args) == [cls |-> class, args |-> args]

\* FieldFormat.format(v, editing) of the field format classes
format_SecondsNotCarried(f, v, editing) ==
    LET \* what _QUOTABLE_CHARS_RE finds: whitespace, backslash, quote
        _QUOTABLE_CHARS == {" ", "\\", "\""}
        \* '{:02d}'.format(k) for k >= 0
        TwoDigits(k) == IF k < 10 THEN <<"0">> \o IntChars(k) ELSE IntChars(k)
        \* int(round(3600 * v)) for v = num / den >= 0: round gives the
        \* nearest integer and, of two equally near, the even one
        Angle(num, den) ==
            LET floor == (3600 * num) \div den
                rest == (3600 * num) % den
                totalSeconds == IF 2 * rest < den THEN floor
                                ELSE IF 2 * rest > den THEN floor + 1
                                ELSE IF floor % 2 = 0 THEN floor
                                ELSE floor + 1
                seconds == totalSeconds - 60 * (floor \div 60)
                totalMinutes == floor \div 60
                minutes == totalMinutes % 60
                degrees == totalMinutes \div 60
            IN  IntChars(degrees) \o <<":">> \o TwoDigits(minutes)
                \o <<":">> \o TwoDigits(seconds)
    IN
    IF v = PyNone /\ (editing \/ f.cls # "StringFormat")
    THEN IF editing THEN _EDITING_NONE ELSE FORMATTED_NONE
    ELSE CASE f.cls = "StringFormat" ->
                IF editing THEN v.s
                ELSE IF v = PyNone THEN FORMATTED_NONE
                ELSE IF Len(v.s) = 0 THEN <<"\"", "\"">>
                ELSE IF \A i \in 1..Len(v.s) : v.s[i] \notin _QUOTABLE_CHARS
                THEN v.s
                ELSE <<"\"">> \o _escapeString(v.s) \o <<"\"">>
           [] f.cls = "DecimalFormat" -> v.s
           [] f.cls = "IntegerFormat" -> IntChars(v.n \div 10)
           [] f.cls = "FloatFormat" ->
                IF IsNaN(v) THEN <<"n", "a", "n">>
                ELSE LET tenths == IF v.n < 0 THEN 0 - v.n ELSE v.n
                     IN  (IF v.n < 0 THEN <<"-">> ELSE <<>>)
                         \o IntChars(tenths \div 10)
                         \o (IF tenths % 10 = 0 THEN <<>>
                             ELSE <<".", Digits[(tenths % 10) + 1]>>)
           [] f.cls = "AngleFormat" ->
                LET num == IF "den" \in DOMAIN v THEN v.num ELSE v.n
                    den == IF "den" \in DOMAIN v THEN v.den ELSE 10
                IN  IF num < 0 THEN <<"-">> \o Angle(0 - num, den)
                    ELSE Angle(num, den)
           [] f.cls = "DateFormat" ->
                IntChars(v.month) \o <<"/">> \o IntChars(v.day) \o <<"/">>
                \o TwoDigits(v.year % 100)

format(f, v, editing) ==
    LET \* what _QUOTABLE_CHARS_RE finds: whitespace, backslash, quote
        _QUOTABLE_CHARS == {" ", "\\", "\""}
        \* '{:02d}'.format(k) for k >= 0
        TwoDigits(k) == IF k < 10 THEN <<"0">> \o IntChars(k) ELSE IntChars(k)
        \* int(round(3600 * v)) for v = num / den >= 0: round gives the
        \* nearest integer and, of two equally near, the even one
        Angle(num, den) ==
            LET floor == (3600 * num) \div den
                rest == (3600 * num) % den
                totalSeconds == IF 2 * rest < den THEN floor
                                ELSE IF 2 * rest > den THEN floor + 1
                                ELSE IF floor % 2 = 0 THEN floor
                                ELSE floor + 1
                seconds == totalSeconds % 60
                totalMinutes == totalSeconds \div 60
                minutes == totalMinutes % 60
                degrees == totalMinutes \div 60
            IN  IntChars(degrees) \o <<":">> \o TwoDigits(minutes)
                \o <<":">> \o TwoDigits(seconds)
    IN
    IF v = PyNone /\ (editing \/ f.cls # "StringFormat")
    THEN IF editing THEN _EDITING_NONE ELSE FORMATTED_NONE
    ELSE CASE f.cls = "StringFormat" ->
                IF editing THEN v.s
                ELSE IF v = PyNone THEN FORMATTED_NONE
                ELSE IF Len(v.s) = 0 THEN <<"\"", "\"">>
                ELSE IF \A i \in 1..Len(v.s) : v.s[i] \notin _QUOTABLE_CHARS
                THEN v.s
                ELSE <<"\"">> \o _escapeString(v.s) \o <<"\"">>
           [] f.cls = "DecimalFormat" -> v.s
           [] f.cls = "IntegerFormat" -> IntChars(v.n \div 10)
           [] f.cls = "FloatFormat" ->
                IF IsNaN(v) THEN <<"n", "a", "n">>
                ELSE LET tenths == IF v.n < 0 THEN 0 - v.n ELSE v.n
                     IN  (IF v.n < 0 THEN <<"-">> ELSE <<>>)
                         \o IntChars(tenths \div 10)
                         \o (IF tenths % 10 = 0 THEN <<>>
                             ELSE <<".", Digits[(tenths % 10) + 1]>>)
           [] f.cls = "AngleFormat" ->
                LET num == IF "den" \in DOMAIN v THEN v.num ELSE v.n
                    den == IF "den" \in DOMAIN v THEN v.den ELSE 10
                IN  IF num < 0 THEN <<"-">> \o Angle(0 - num, den)
                    ELSE Angle(num, den)
           [] f.cls = "DateFormat" ->
                IntChars(v.month) \o <<"/">> \o IntChars(v.day) \o <<"/">>
                \o TwoDigits(v.year % 100)

\* FieldFormat.parse(s, editing) of the field format classes: what is
\* raised and the value returned
parse_NoLeapYears(f, chars, editing) ==
    LET Value(v) == [result |-> "ok", value |-> v]
        ValueError == [result |-> "ValueError", value |-> PyNone]
        \* the groups of a string of three runs of digits with sep between
        \* them, the runs of the given least and greatest lengths; no
        \* group when the string is not one
        Groups(string, sep, least, greatest) ==
            LET first == IndexOf(string, sep)
                rest == SubSeq(string, first + 1, Len(string))
                second == IndexOf(rest, sep)
                groups == <<SubSeq(string, 1, first - 1),
                            SubSeq(rest, 1, second - 1),
                            SubSeq(rest, second + 1, Len(rest))>>
            IN  IF /\ first # 0
                   /\ second # 0
                   /\ \A i \in 1..3 : /\ Len(groups[i]) >= least[i]
                                       /\ Len(groups[i]) <= greatest[i]
                                       /\ AllDigits(groups[i])
                THEN groups ELSE <<>>
        \* AngleFormat.parse for the groups of _ANGLE_RE after the sign
        Angle(negative, groups) ==
            IF groups = <<>> THEN ValueError
            ELSE LET v == 3600 * DigitsValue(groups[1])
                          + 60 * DigitsValue(groups[2]) + DigitsValue(groups[3])
                 IN  Value([t |-> "float",
                            num |-> IF negative THEN 0 - v ELSE v,
                            den |-> 3600])
        \* DateFormat.parse for the groups of _DATE_RE
        Date(groups) ==
            IF groups = <<>> THEN ValueError
            ELSE LET month == DigitsValue(groups[1])
                     day == DigitsValue(groups[2])
                     yy == DigitsValue(groups[3])
                     year == yy + (IF yy < 70 THEN 2000 ELSE 1900)
                     isleap == year % 4 = 0 /\ (year % 100 # 0 \/ year % 400 = 0)
                     \* calendar.monthrange(year, month)[1]
                     numDays == IF month = 2 THEN (IF FALSE /\ isleap THEN 29 ELSE 28)
                                ELSE IF month \in {4, 6, 9, 11} THEN 30 ELSE 31
                 IN  IF month = 0 \/ month > 12 THEN ValueError
                     ELSE IF day = 0 \/ day > numDays THEN ValueError
                     ELSE Value([t |-> "date", year |-> year, month |-> month,
                                 day |-> day])
    IN  IF f.cls = "StringFormat"
        THEN IF editing
             THEN Value(IF chars = _EDITING_NONE THEN PyNone ELSE PyStr(chars))
             ELSE IF chars = FORMATTED_NONE THEN Value(PyNone)
             ELSE IF chars = <<>> THEN [result |-> "IndexError", value |-> PyNone]
             ELSE IF chars[1] = "\""
             THEN Value(PyStr(_unescapeString(SubSeq(chars, 2, Len(chars) - 1))))
             ELSE Value(PyStr(chars))
        ELSE IF (editing /\ chars = _EDITING_NONE)
                \/ (~editing /\ chars = FORMATTED_NONE)
        THEN Value(PyNone)
        ELSE CASE f.cls = "DecimalFormat" ->
                    IF _DECIMAL_RE(chars) THEN Value(PyStr(chars))
                    ELSE [result |-> "ValueError", value |-> PyNone]
               [] f.cls = "IntegerFormat" -> ParseNumber(chars, "int")
               [] f.cls = "FloatFormat" -> ParseNumber(chars, "float")
               [] f.cls = "AngleFormat" ->
                    IF chars # <<>> /\ chars[1] = "-"
                    THEN Angle(TRUE, Groups(Tail(chars), ":", <<1, 2, 2>>,
                                            <<3, 2, 2>>))
                    ELSE Angle(FALSE, Groups(chars, ":", <<1, 2, 2>>, <<3, 2, 2>>))
               [] f.cls = "DateFormat" ->
                    Date(Groups(chars, "/", <<1, 1, 2>>, <<2, 2, 2>>))

parse(f, chars, editing) ==
    LET Value(v) == [result |-> "ok", value |-> v]
        ValueError == [result |-> "ValueError", value |-> PyNone]
        \* the groups of a string of three runs of digits with sep between
        \* them, the runs of the given least and greatest lengths; no
        \* group when the string is not one
        Groups(string, sep, least, greatest) ==
            LET first == IndexOf(string, sep)
                rest == SubSeq(string, first + 1, Len(string))
                second == IndexOf(rest, sep)
                groups == <<SubSeq(string, 1, first - 1),
                            SubSeq(rest, 1, second - 1),
                            SubSeq(rest, second + 1, Len(rest))>>
            IN  IF /\ first # 0
                   /\ second # 0
                   /\ \A i \in 1..3 : /\ Len(groups[i]) >= least[i]
                                       /\ Len(groups[i]) <= greatest[i]
                                       /\ AllDigits(groups[i])
                THEN groups ELSE <<>>
        \* AngleFormat.parse for the groups of _ANGLE_RE after the sign
        Angle(negative, groups) ==
            IF groups = <<>> THEN ValueError
            ELSE LET v == 3600 * DigitsValue(groups[1])
                          + 60 * DigitsValue(groups[2]) + DigitsValue(groups[3])
                 IN  Value([t |-> "float",
                            num |-> IF negative THEN 0 - v ELSE v,
                            den |-> 3600])
        \* DateFormat.parse for the groups of _DATE_RE
        Date(groups) ==
            IF groups = <<>> THEN ValueError
            ELSE LET month == DigitsValue(groups[1])
                     day == DigitsValue(groups[2])
                     yy == DigitsValue(groups[3])
                     year == yy + (IF yy < 70 THEN 2000 ELSE 1900)
                     isleap == year % 4 = 0 /\ (year % 100 # 0 \/ year % 400 = 0)
                     \* calendar.monthrange(year, month)[1]
                     numDays == IF month = 2 THEN (IF isleap THEN 29 ELSE 28)
                                ELSE IF month \in {4, 6, 9, 11} THEN 30 ELSE 31
                 IN  IF month = 0 \/ month > 12 THEN ValueError
                     ELSE IF day = 0 \/ day > numDays THEN ValueError
                     ELSE Value([t |-> "date", year |-> year, month |-> month,
                                 day |-> day])
    IN  IF f.cls = "StringFormat"
        THEN IF editing
             THEN Value(IF chars = _EDITING_NONE THEN PyNone ELSE PyStr(chars))
             ELSE IF chars = FORMATTED_NONE THEN Value(PyNone)
             ELSE IF chars = <<>> THEN [result |-> "IndexError", value |-> PyNone]
             ELSE IF chars[1] = "\""
             THEN Value(PyStr(_unescapeString(SubSeq(chars, 2, Len(chars) - 1))))
             ELSE Value(PyStr(chars))
        ELSE IF (editing /\ chars = _EDITING_NONE)
                \/ (~editing /\ chars = FORMATTED_NONE)
        THEN Value(PyNone)
        ELSE CASE f.cls = "DecimalFormat" ->
                    IF _DECIMAL_RE(chars) THEN Value(PyStr(chars))
                    ELSE [result |-> "ValueError", value |-> PyNone]
               [] f.cls = "IntegerFormat" -> ParseNumber(chars, "int")
               [] f.cls = "FloatFormat" -> ParseNumber(chars, "float")
               [] f.cls = "AngleFormat" ->
                    IF chars # <<>> /\ chars[1] = "-"
                    THEN Angle(TRUE, Groups(Tail(chars), ":", <<1, 2, 2>>,
                                            <<3, 2, 2>>))
                    ELSE Angle(FALSE, Groups(chars, ":", <<1, 2, 2>>, <<3, 2, 2>>))
               [] f.cls = "DateFormat" ->
                    Date(Groups(chars, "/", <<1, 1, 2>>, <<2, 2, 2>>))

(***************************************************************************)
(* SimpleDocumentFormat.py: observation formats.  An item of a format is a *)
(* literal (name empty) or the format of the field called name; field      *)
(* names are single characters.                                            *)
(***************************************************************************)
\* str.split(): the runs of characters between the blanks
RECURSIVE split(_)
split(chars) ==
    IF chars = <<>> THEN <<>>
    ELSE IF chars[1] = " " THEN split(Tail(chars))
    ELSE LET blank == IndexOf(chars, " ")
             end == IF blank = 0 THEN Len(chars) ELSE blank - 1
         IN  <<SubSeq(chars, 1, end)>>
             \o split(SubSeq(chars, end + 1, Len(chars)))

\* ' '.join(items)
RECURSIVE join(_)
join(items) ==
    IF items = <<>> THEN <<>>
    ELSE IF Len(items) = 1 THEN items[1]
    ELSE items[1] \o <<" ">> \o join(Tail(items))

\* ('', Literal(text)) and (fieldName, formatClass(*args)) as one record
Item(name, class, text, isKey, args) ==
    [name |-> name, cls |-> class, text |-> text, isKey |-> isKey, args |-> args]

\* Literal.__init__: a trailing * marks the key and is not part of the text
Literal(text) ==
    IF text # <<>> /\ text[Len(text)] = "*"
    THEN Item("", "Literal", SubSeq(text, 1, Len(text) - 1), TRUE, <<>>)
    ELSE Item("", "Literal", text, FALSE, <<>>)

\* _parseObsFormatItem, with _getObsField and _getFormatClass, for the field
\* formats of the document format (the format class of each field class):
\* what is raised and the item made.  StringFormat and DecimalFormat take
\* no argument; IntegerFormat and FloatFormat take a replacement field that
\* formats 0, which {:d} does and a field with an unknown code does not.
_parseObsFormatItem(item, c) ==
    LET fieldFormats == [String |-> "StringFormat", Decimal |-> "DecimalFormat",
                         Integer |-> "IntegerFormat", Float |-> "FloatFormat"]
        inner == SubSeq(item, 2, Len(item) - 1)
        colon == IndexOf(inner, ":")
        fieldName == IF colon = 0 THEN inner ELSE SubSeq(inner, 1, colon - 1)
        args == IF colon = 0 THEN <<>>
                ELSE << <<"{", ":">> \o SubSeq(inner, colon + 1, Len(inner))
                        \o <<"}">> >>
        Raise(error) == [result |-> error, item |-> Literal(<<>>)]
    IN  IF item[1] # "{" THEN [result |-> "ok", item |-> Literal(item)]
        ELSE IF item[Len(item)] # "}" THEN Raise("ValueError")
        ELSE IF Len(fieldName) # 1 \/ fieldName[1] \notin FieldNames(c)
        THEN Raise("ValueError")
        ELSE LET class == fieldFormats[Descriptor(c, fieldName[1]).cls]
             IN  IF args = <<>>
                 THEN [result |-> "ok",
                       item |-> Item(fieldName[1], class, <<>>, FALSE, args)]
                 ELSE IF class \in {"StringFormat", "DecimalFormat"}
                 THEN Raise("TypeError")
                 ELSE IF args = << <<"{", ":", "d", "}">> >>
                 THEN [result |-> "ok",
                       item |-> Item(fieldName[1], class, <<>>, FALSE, args)]
                 ELSE Raise("ValueError")

\* SimpleObservationFormat(formatString, obsClass, fieldFormats), that is
\* _parseObsFormatString: what is raised, and the items and the key index
\* of the format made (the first item has the index 1)
SimpleObservationFormat(formatString, c) ==
    LET split_ == split(formatString)
        Raise(error) ==
            [result |-> error, obsClass |-> c, items |-> <<>>, keyIndex |-> 0]
        Made(parsed) ==
            LET failed == {i \in 1..Len(parsed) : parsed[i].result # "ok"}
                keyIndices == {i \in 1..Len(parsed) : parsed[i].item.isKey}
            IN  IF failed # {}
                THEN Raise(parsed[CHOOSE i \in failed :
                                     \A j \in failed : i <= j].result)
                ELSE IF keyIndices = {} THEN Raise("ValueError")
                ELSE [result |-> "ok", obsClass |-> c,
                      items |-> [i \in 1..Len(parsed) |-> parsed[i].item],
                      keyIndex |-> CHOOSE i \in keyIndices :
                                      \A j \in keyIndices : i <= j]
    IN  Made([i \in 1..Len(split_) |-> _parseObsFormatItem(split_[i], c)])

\* SimpleObservationFormat._parseTokens, with _parseToken and
\* Literal.parse: what is raised and the observation made.  Every token is
\* parsed with its item, a literal by comparison with its text; the first
\* token that fails ends the parsing; the observation is constructed with
\* the parsed values of the fields.
_parseTokens_AnyLiteral(f, tokens) ==
    LET items == f.items
        Parsed(i) ==
            IF items[i].cls = "Literal"
            THEN [result |-> IF FALSE /\ tokens[i] # items[i].text
                             THEN "ValueError" ELSE "ok",
                  value |-> PyNone]
            ELSE parse(FieldFormat(items[i].cls, items[i].args), tokens[i], FALSE)
        failed == {i \in 1..Len(items) : Parsed(i).result # "ok"}
        names == {items[i].name : i \in 1..Len(items)} \ {""}
        fields == [name \in names |->
                      Parsed(CHOOSE i \in 1..Len(items) :
                                /\ items[i].name = name
                                /\ \A j \in (i + 1)..Len(items) :
                                      items[j].name # name).value]
    IN  IF Len(tokens) # Len(items)
        THEN [result |-> "ValueError", record |-> NoRecord]
        ELSE IF failed # {}
        THEN [result |-> Parsed(CHOOSE i \in failed :
                                   \A j \in failed : i <= j).result,
              record |-> NoRecord]
        ELSE Observation__init__(Class(f.obsClass), fields)

_parseTokens(f, tokens) ==
    LET items == f.items
        Parsed(i) ==
            IF items[i].cls = "Literal"
            THEN [result |-> IF tokens[i] # items[i].text
                             THEN "ValueError" ELSE "ok",
                  value |-> PyNone]
            ELSE parse(FieldFormat(items[i].cls, items[i].args), tokens[i], FALSE)
        failed == {i \in 1..Len(items) : Parsed(i).result # "ok"}
        names == {items[i].name : i \in 1..Len(items)} \ {""}
        fields == [name \in names |->
                      Parsed(CHOOSE i \in 1..Len(items) :
                                /\ items[i].name = name
                                /\ \A j \in (i + 1)..Len(items) :
                                      items[j].name # name).value]
    IN  IF Len(tokens) # Len(items)
        THEN [result |-> "ValueError", record |-> NoRecord]
        ELSE IF failed # {}
        THEN [result |-> Parsed(CHOOSE i \in failed :
                                   \A j \in failed : i <= j).result,
              record |-> NoRecord]
        ELSE Observation__init__(Class(f.obsClass), fields)

(***************************************************************************)
(* SimpleDocumentFormat.py: document formats.                              *)
(***************************************************************************)
\* maka.util.TokenUtils.tokenizeString: what is raised and the tokens of
\* the string.  Tokens are separated by blanks; a token that starts with a
\* quote runs to the next quote that no backslash escapes, blanks
\* included, and keeps its quotes; a quote that is not closed is an error.
RECURSIVE tokenizeString(_)
tokenizeString(chars) ==
    LET RECURSIVE Closing(_)
        Closing(i) ==
            IF i > Len(chars) THEN 0
            ELSE IF chars[i] = "\\" THEN Closing(i + 2)
            ELSE IF chars[i] = "\"" THEN i
            ELSE Closing(i + 1)
        blank == IndexOf(chars, " ")
        end == IF chars[1] = "\"" THEN Closing(2)
               ELSE IF blank = 0 THEN Len(chars) ELSE blank - 1
        rest == tokenizeString(SubSeq(chars, end + 1, Len(chars)))
    IN  IF chars = <<>> THEN [result |-> "ok", tokens |-> <<>>]
        ELSE IF chars[1] = " " THEN tokenizeString(Tail(chars))
        ELSE IF end = 0 THEN [result |-> "ValueError", tokens |-> <<>>]
        ELSE [result |-> rest.result,
              tokens |-> IF rest.result = "ok"
                         THEN <<SubSeq(chars, 1, end)>> \o rest.tokens
                         ELSE <<>>]

\* SimpleObservationFormat.formatObservation, with _applyObsFormatItem
formatObservation(f, obs) ==
    join([i \in 1..Len(f.items) |->
             IF f.items[i].name = "" THEN f.items[i].text
             ELSE format(FieldFormat(f.items[i].cls, f.items[i].args),
                         obs.values[f.items[i].name], FALSE)])

\* SimpleDocumentFormat.__init__ for the dictionary observationFormats,
\* given as the sequence of its entries (class name and format string) in
\* the order of the dictionary: the formats by class name, the key sets
\* (key index and keys) in the order of their sizes, key indices of equal
\* size in the order in which the formats introduce them, and the formats
\* by key, where a later format replaces an earlier one with the same key
SimpleDocumentFormat(observationFormats) ==
    LET n == Len(observationFormats)
        Made(formats) ==
            LET failed == {k \in 1..n : formats[k].result # "ok"}
                Key(k) == formats[k].items[formats[k].keyIndex].text
                First(i) == CHOOSE k \in 1..n :
                               /\ formats[k].keyIndex = i
                               /\ \A j \in 1..(k - 1) : formats[j].keyIndex # i
                Keys(i) == {Key(k) : k \in {j \in 1..n : formats[j].keyIndex = i}}
                indices == {formats[k].keyIndex : k \in 1..n}
                Before(i, j) ==
                    \/ Cardinality(Keys(i)) < Cardinality(Keys(j))
                    \/ Cardinality(Keys(i)) = Cardinality(Keys(j)) /\ First(i) < First(j)
                Rank(i) == Cardinality({j \in indices : Before(j, i)}) + 1
            IN  IF failed # {}
                THEN [result |-> formats[CHOOSE k \in failed :
                                            \A j \in failed : k <= j].result,
                      _obsFormatsByName |-> <<>>, _keySets |-> <<>>,
                      _obsFormatsByKey |-> <<>>]
                ELSE [result |-> "ok",
                      _obsFormatsByName |->
                          [c \in {observationFormats[k].cls : k \in 1..n} |->
                              formats[CHOOSE k \in 1..n : observationFormats[k].cls = c]],
                      _keySets |->
                          [r \in 1..Cardinality(indices) |->
                              LET i == CHOOSE j \in indices : Rank(j) = r
                              IN  [keyIndex |-> i, keys |-> Keys(i)]],
                      _obsFormatsByKey |->
                          [key \in {Key(k) : k \in 1..n} |->
                              formats[CHOOSE k \in 1..n :
                                         /\ Key(k) = key
                                         /\ \A j \in (k + 1)..n : Key(j) # key]]]
    IN  Made([k \in 1..n |->
                 SimpleObservationFormat(observationFormats[k].formatString,
                                         observationFormats[k].cls)])

\* SimpleDocumentFormat._parseObs: what is raised and the observation made
_parseObs(doc, chars) ==
    LET tokenized == tokenizeString(chars)
        tokens == tokenized.tokens
        matching == {r \in 1..Len(doc._keySets) :
                        /\ doc._keySets[r].keyIndex <= Len(tokens)
                        /\ tokens[doc._keySets[r].keyIndex]
                              \in doc._keySets[r].keys}
        first == CHOOSE r \in matching : \A q \in matching : r <= q
    IN  IF tokenized.result # "ok"
        THEN [result |-> tokenized.result, record |-> NoRecord]
        ELSE IF matching = {}
        THEN [result |-> "ValueError", record |-> NoRecord]
        ELSE _parseTokens(
                 doc._obsFormatsByKey[tokens[doc._keySets[first].keyIndex]],
                 tokens)

\* str.splitlines(): the lines of a text, without their newlines
RECURSIVE splitlines(_)
splitlines(chars) ==
    LET newline == IndexOf(chars, "\n")
    IN  IF chars = <<>> THEN <<>>
        ELSE IF newline = 0 THEN <<chars>>
        ELSE <<SubSeq(chars, 1, newline - 1)>>
             \o splitlines(SubSeq(chars, newline + 1, Len(chars)))

\* SimpleDocumentFormat.formatDocument: the text, every observation
\* formatted with the format of its class and ended with a newline
RECURSIVE formatDocument(_, _)
formatDocument(doc, obsSeq) ==
    IF obsSeq = <<>> THEN <<>>
    ELSE formatObservation(doc._obsFormatsByName[obsSeq[1].cls], obsSeq[1])
         \o <<"\n">> \o formatDocument(doc, Tail(obsSeq))

\* SimpleDocumentFormat.parseDocument: what is raised, the observations
\* parsed and, for an error, its line number; empty lines are skipped
RECURSIVE parseDocument_EmptyLinesNotCounted(_, _, _)
parseDocument_EmptyLinesNotCounted(doc, lines, startLineNum) ==
    IF lines = <<>> THEN [result |-> "ok", observations |-> <<>>, lineNum |-> 0]
    ELSE LET Join(parsed, rest) ==
                 IF parsed.result # "ok"
                 THEN [result |-> parsed.result, observations |-> <<>>,
                       lineNum |-> startLineNum + 1]
                 ELSE IF rest.result # "ok" THEN rest
                 ELSE [rest EXCEPT !.observations =
                           (IF lines[1] = <<>> THEN <<>> ELSE <<parsed.record>>)
                           \o rest.observations]
         IN  Join(IF lines[1] = <<>>
                  THEN [result |-> "ok", record |-> NoRecord]
                  ELSE _parseObs(doc, lines[1]),
                  parseDocument_EmptyLinesNotCounted(doc, Tail(lines),
                                       startLineNum + (IF lines[1] = <<>> THEN 0 ELSE 1)))

RECURSIVE parseDocument(_, _, _)
parseDocument(doc, lines, startLineNum) ==
    IF lines = <<>> THEN [result |-> "ok", observations |-> <<>>, lineNum |-> 0]
    ELSE LET Join(parsed, rest) ==
                 IF parsed.result # "ok"
                 THEN [result |-> parsed.result, observations |-> <<>>,
                       lineNum |-> startLineNum + 1]
                 ELSE IF rest.result # "ok" THEN rest
                 ELSE [rest EXCEPT !.observations =
                           (IF lines[1] = <<>> THEN <<>> ELSE <<parsed.record>>)
                           \o rest.observations]
         IN  Join(IF lines[1] = <<>>
                  THEN [result |-> "ok", record |-> NoRecord]
                  ELSE _parseObs(doc, lines[1]),
                  parseDocument(doc, Tail(lines), startLineNum + 1))

(***************************************************************************)
(* Formats: values are formatted and parsed, format strings are compiled,  *)
(* lines are parsed.  The sample holds the call and, once it was made, its *)
(* outcome.                                                                *)
(***************************************************************************)
\* the format strings of one to MaxItems items
MaxItems == 3

\* the formats that token sequences and lines are parsed with, with their
\* classes
ParsedFormats ==
    {[cls |-> "Obs", formatString |-> <<"O", "*", " ", "{", "s", "}", " ", "{", "v", "}">>],
     [cls |-> "Obs", formatString |-> <<"{", "s", "}", " ", "O", "*", " ", "{", "v", "}">>],
     [cls |-> "Obs", formatString |-> <<"L", " ", "O", "*", " ", "{", "s", "}">>],
     [cls |-> "A", formatString |-> <<"A", "*", " ", "{", "x", ":", "d", "}">>],
     [cls |-> "A", formatString |-> <<"{", "x", "}", " ", "A", "*", " ", "L">>],
     [cls |-> "A", formatString |-> <<"{", "x", ":", "d", "}", " ", "O", "*">>]}

\* the sequences of one to MaxItems tokens
TokenSeqs ==
    LET Tokens == {<<"O">>, <<"L">>, <<"A">>, <<"a">>, <<"C">>, <<"2">>,
                   <<"1">>, FORMATTED_NONE}
    IN  UNION {[1..n -> Tokens] : n \in 1..MaxItems}

\* the dictionaries observationFormats of the document formats: a format
\* for one class or for two, in either order
DocumentFormats ==
    {<<f>> : f \in ParsedFormats}
    \cup UNION {{<<f, g>> : g \in {h \in ParsedFormats : h.cls # f.cls}} :
                   f \in ParsedFormats}

\* the documents: up to MaxObservations observations as the constructor
\* makes them
MaxObservations == 2

\* the values formatted with each field format class
FormattedValues ==
    [StringFormat |-> {PyNone, PyStr(<<>>), PyStr(<<"A">>), PyStr(<<"a", " ", "b">>),
                       PyStr(<<"\"">>), PyStr(<<"\\">>), PyStr(<<"\\", "\"">>),
                       PyStr(<<"\"", "\"">>), PyStr(<<"a", "\\", "\\", "\"", "b">>)},
     DecimalFormat |-> {PyNone, PyStr(<<"1">>), PyStr(<<"-", "1", ".", "5">>),
                        PyStr(<<".", "5">>), PyStr(<<"0", ".">>)},
     IntegerFormat |-> {PyNone, PyInt(0), PyInt(5), PyInt(-12), PyInt(340)},
     FloatFormat |-> {PyNone, PyFloat(0), PyFloat(20), PyFloat(25), PyFloat(-5),
                      PyFloat(1234)},
     \* degrees, and binary fractions of a degree
     AngleFormat |-> {PyNone, PyInt(0), PyInt(5), PyFloat(25), PyFloat(-5)}
                     \cup {[t |-> "float", num |-> k, den |-> 16384] :
                              k \in {1, 2, 3, 272, 273, 274, 512, 1536, 16382,
                                     16383, 16385, 114687, -2, -272, -512}},
     DateFormat |-> {PyNone}
                    \cup {[t |-> "date", year |-> d[1], month |-> d[2], day |-> d[3]] :
                             d \in {<<1970, 1, 1>>, <<1970, 10, 5>>, <<1999, 12, 31>>,
                                    <<2000, 2, 29>>, <<2012, 2, 29>>, <<2013, 8, 26>>,
                                    <<2069, 12, 31>>}}]

\* f = cls(); f.parse(f.format(v, editing), editing)
formatField ==
    /\ sample.op = "field"
    /\ ~sample.done
    /\ LET f == FieldFormat(sample.cls, <<>>)
           formatted == format(f, sample.v, sample.editing)
       IN  sample' = [sample EXCEPT !.done = TRUE,
                                    !.formatted = formatted,
                                    !.parsed = parse(f, formatted, sample.editing)]
    /\ UNCHANGED <<docVars, clientVars, records, fieldCall>>

\* DateFormat().parse(s, editing)
parseField ==
    /\ sample.op = "token"
    /\ ~sample.done
    /\ sample' = [sample EXCEPT
                     !.done = TRUE,
                     !.parsed = parse(FieldFormat(sample.cls, <<>>), sample.s,
                                      sample.editing)]
    /\ UNCHANGED <<docVars, clientVars, records, fieldCall>>

\* SimpleObservationFormat(formatString, obsClass, fieldFormats)
compile ==
    /\ sample.op = "compile"
    /\ ~sample.done
    /\ sample' = [sample EXCEPT
                     !.done = TRUE,
                     !.made = SimpleObservationFormat(sample.formatString,
                                                      sample.cls)]
    /\ UNCHANGED <<docVars, clientVars, records, fieldCall>>

\* SimpleObservationFormat(formatString, obsClass, fieldFormats)
\*     ._parseTokens(tokens, s)
parseTokens ==
    /\ sample.op = "tokens"
    /\ ~sample.done
    /\ sample' = [sample EXCEPT
                     !.done = TRUE,
                     !.parsed = _parseTokens(
                                    SimpleObservationFormat(sample.formatString,
                                                            sample.cls),
                                    sample.tokens)]
    /\ UNCHANGED <<docVars, clientVars, records, fieldCall>>

\* SimpleDocumentFormat()._parseObs(s)
parseObs ==
    /\ sample.op = "line"
    /\ ~sample.done
    /\ sample' = [sample EXCEPT
                     !.done = TRUE,
                     !.parsed = _parseObs(SimpleDocumentFormat(sample.formats),
                                          sample.line)]
    /\ UNCHANGED <<docVars, clientVars, records, fieldCall>>

\* f = SimpleDocumentFormat()
\* f.parseDocument(f.formatDocument(observations).splitlines())
formatAndParse ==
    /\ sample.op = "document"
    /\ ~sample.done
    /\ LET doc == SimpleDocumentFormat(sample.formats)
           text == formatDocument(doc, sample.observations)
       IN  sample' = [sample EXCEPT
                        !.done = TRUE,
                        !.text = text,
                        !.parsed = parseDocument(doc, splitlines(text), 0)]
    /\ UNCHANGED <<docVars, clientVars, records, fieldCall>>

\* SimpleDocumentFormat().parseDocument(lines, startLineNum), as
\* MakaDocumentFileFormat.readDocument calls it for the lines of a file
parseLines ==
    /\ sample.op = "lines"
    /\ ~sample.done
    /\ sample' = [sample EXCEPT
                     !.done = TRUE,
                     !.parsed = parseDocument(SimpleDocumentFormat(sample.formats),
                                              sample.lines, sample.startLineNum)]
    /\ UNCHANGED <<docVars, clientVars, records, fieldCall>>

FormatsInit ==
    /\ DocumentIdle
    /\ ClientsIdle
    /\ records = [slot \in Slots |-> NoRecord]
    /\ fieldCall = NoFieldCall
    /\ \/ \E class \in DOMAIN FormattedValues, editing \in BOOLEAN :
             \E v \in FormattedValues[class] :
                sample = [op |-> "field", done |-> FALSE, cls |-> class,
                          v |-> v, editing |-> editing, formatted |-> <<>>,
                          parsed |-> [result |-> "ok", value |-> PyNone]]
       \/ \E editing \in BOOLEAN :
             \E s \in {IntChars(month) \o <<"/">> \o IntChars(day) \o <<"/">> \o yy :
                         month \in {0, 1, 2, 4, 12, 13},
                         day \in {0, 1, 28, 29, 30, 31, 32},
                         yy \in {<<"0", "0">>, <<"1", "2">>, <<"1", "3">>,
                                 <<"6", "9">>, <<"7", "0">>, <<"9", "9">>,
                                 <<"5">>, <<"1", "2", "3">>}}
                     \cup {<<"b", "o", "b", "o">>, <<"1", "/", "2">>,
                           <<"1", "/", "2", "/", "3", "/", "4">>,
                           <<"1", ":", "2", "3", ":", "4", "5">>,
                           <<"0", "0", "1", "/", "1", "/", "1", "3">>,
                           <<"0", "1", "/", "0", "2", "/", "0", "3">>,
                           <<"-", "1", "/", "2", "/", "1", "3">>,
                           <<>>, FORMATTED_NONE} :
                sample = [op |-> "token", done |-> FALSE, cls |-> "DateFormat",
                          s |-> s, editing |-> editing,
                          parsed |-> [result |-> "ok", value |-> PyNone]]
       \/ LET FormatItems ==
                  {<<"O", "*">>, <<"P", "*">>, <<"L">>, <<"{", "s", "}">>,
                   <<"{", "v", "}">>, <<"{", "x", "}">>,
                   <<"{", "x", ":", "d", "}">>, <<"{", "s", "]">>,
                   <<"{", "{", "s", "}">>, <<"{", "z", "}">>}
              FormatStrings ==
                  {join(items) :
                      items \in UNION {[1..n -> FormatItems] : n \in 1..MaxItems}}
          IN  \E c \in {"Obs", "A"}, formatString \in FormatStrings :
                 sample = [op |-> "compile", done |-> FALSE, cls |-> c,
                           formatString |-> formatString,
                           made |-> SimpleObservationFormat(<<"O", "*">>, c)]
       \/ \E f \in ParsedFormats, tokens \in TokenSeqs :
             sample = [op |-> "tokens", done |-> FALSE, cls |-> f.cls,
                       formatString |-> f.formatString, tokens |-> tokens,
                       parsed |-> [result |-> "ok", record |-> NoRecord]]
       \/ \E formats \in DocumentFormats, tokens \in TokenSeqs :
             /\ \A i \in 1..Len(tokens) :
                   tokens[i] \in {<<"O">>, <<"A">>, <<"2">>, <<"L">>}
             /\ sample = [op |-> "line", done |-> FALSE, formats |-> formats,
                          line |-> join(tokens),
                          parsed |-> [result |-> "ok", record |-> NoRecord]]
       \/ \E formats \in DocumentFormats,
             obsSeq \in LET made == {Observation__init__(Class(c.cls), c.kwds) :
                                        c \in Constructions}
                            valid == {m.record : m \in {k \in made : k.result = "ok"}}
                        IN  UNION {[1..n -> valid] : n \in 0..MaxObservations} :
             /\ \A k \in 1..Len(formats) :
                   LET f == SimpleObservationFormat(formats[k].formatString,
                                                   formats[k].cls)
                   IN  {f.items[i].name : i \in 1..Len(f.items)} \ {""}
                          = FieldNames(formats[k].cls)
             /\ \A i \in 1..Len(obsSeq) :
                   \E k \in 1..Len(formats) :
                      formats[k].cls = obsSeq[i].cls
             /\ sample = [op |-> "document", done |-> FALSE,
                          formats |-> formats, observations |-> obsSeq,
                          text |-> <<>>,
                          parsed |-> [result |-> "ok", observations |-> <<>>,
                                      lineNum |-> 0]]
       \/ \E startLineNum \in {0, 2} :
             \E lines \in SeqsUpTo({<<>>, <<" ">>, <<"L">>,
                                    <<"O", " ", "A", " ", "2">>,
                                    <<"O", " ", "C", " ", "2">>,
                                    <<"O", " ", "\"", "A">>,
                                    <<"A", " ", "1">>}, MaxObservations + 1) :
                sample = [op |-> "lines", done |-> FALSE,
                          formats |-> <<[cls |-> "Obs",
                                         formatString |-> <<"O", "*", " ", "{", "s",
                                                            "}", " ", "{", "v", "}">>],
                                        [cls |-> "A",
                                         formatString |-> <<"A", "*", " ", "{", "x",
                                                            ":", "d", "}">>]>>,
                          lines |-> lines, startLineNum |-> startLineNum,
                          parsed |-> [result |-> "ok", observations |-> <<>>,
                                      lineNum |-> 0]]

FormatsNext ==
    \/ formatField
    \/ parseField
    \/ compile
    \/ parseTokens
    \/ parseObs
    \/ formatAndParse
    \/ parseLines

SpecFormats == FormatsInit /\ [][FormatsNext]_vars

\* C16: for every field format, both modes and every valid value v,
\* parse(format(v)) is v; None formats to the None token of the mode (the
\* empty string when editing, FORMATTED_NONE otherwise), which parses to
\* None.
C16_FieldFormatsRoundTrip ==
    (sample.op = "field" /\ sample.done) =>
        /\ sample.parsed.result = "ok"
        /\ LET Num(v) == IF "den" \in DOMAIN v THEN v.num ELSE v.n
               Den(v) == IF "den" \in DOMAIN v THEN v.den ELSE 10
           IN  IF sample.cls = "AngleFormat" /\ sample.v # PyNone
               THEN /\ sample.parsed.value.t = "float"
                    /\ Num(sample.parsed.value) * Den(sample.v)
                          = Num(sample.v) * Den(sample.parsed.value)
               ELSE IF sample.cls = "DateFormat"
               THEN sample.parsed.value = sample.v
               ELSE PyEq(sample.parsed.value, sample.v)
        /\ sample.v = PyNone =>
              sample.formatted = IF sample.editing THEN _EDITING_NONE
                                 ELSE FORMATTED_NONE

\* C20: a format that was made has exactly one item marked as its key; a
\* format string with no key literal, with more than one literal that ends
\* with *, with a placeholder that does not end with } or with a
\* placeholder that names no field of the class is rejected when the
\* format is made.
C20_FormatHasExactlyOneKey ==
    (sample.op = "compile" /\ sample.done) =>
        LET items == split(sample.formatString)
            made == sample.made
            keys == {i \in 1..Len(items) :
                        items[i][1] # "{" /\ items[i][Len(items[i])] = "*"}
            malformed == \E i \in 1..Len(items) :
                            items[i][1] = "{" /\ items[i][Len(items[i])] # "}"
            unknown == \E i \in 1..Len(items) :
                          /\ items[i][1] = "{"
                          /\ items[i][Len(items[i])] = "}"
                          /\ \A name \in FieldNames(sample.cls) :
                                /\ SubSeq(items[i], 2, 2) # <<name>>
        IN  /\ made.result = "ok" =>
                  Cardinality({i \in 1..Len(made.items) :
                                  made.items[i].isKey}) = 1
            /\ (keys = {} \/ Cardinality(keys) > 1 \/ malformed \/ unknown)
                  => made.result # "ok"

C17_DocumentRoundTrip ==
    (sample.op = "document" /\ sample.done) =>
        /\ sample.parsed.result = "ok"
        /\ Len(sample.parsed.observations) = Len(sample.observations)
        /\ \A i \in 1..Len(sample.observations) :
              LET obs == sample.observations[i]
                  parsed == sample.parsed.observations[i]
              IN  /\ parsed.cls = obs.cls
                  /\ DOMAIN parsed.values = DOMAIN obs.values
                  /\ \A name \in DOMAIN obs.values :
                        PyEq(parsed.values[name], obs.values[name])

\* C18: a line is parsed with the format that owns the key found at the
\* first key index, in the order of increasing key set sizes, at which
\* the line has a key of the key set; a line with no key at a key index
\* raises ValueError and gives no observation; the outcome is the same
\* for the same set of formats, in whatever order they are given.
C18_DispatchByKeyPosition ==
    (sample.op = "line" /\ sample.done) =>
        LET formats == sample.formats
            n == Len(formats)
            tokens == tokenizeString(sample.line).tokens
            Format(k) == SimpleObservationFormat(formats[k].formatString,
                                                 formats[k].cls)
            Key(k) == Format(k).items[Format(k).keyIndex].text
            Size(k) == Cardinality({Key(j) : j \in {h \in 1..n :
                           Format(h).keyIndex = Format(k).keyIndex}})
            matching == {k \in 1..n : /\ Format(k).keyIndex <= Len(tokens)
                                      /\ tokens[Format(k).keyIndex] = Key(k)}
            swapped == [k \in 1..n |-> formats[n + 1 - k]]
        IN  /\ matching = {} =>
                  sample.parsed = [result |-> "ValueError", record |-> NoRecord]
            /\ matching # {} =>
                  \E k \in matching :
                     /\ \A j \in matching : Size(k) <= Size(j)
                     /\ sample.parsed = _parseTokens(Format(k), tokens)
            /\ sample.parsed = _parseObs(SimpleDocumentFormat(swapped),
                                         sample.line)

\* C21: for every angle that is not None, AngleFormat.format gives
\* [-]D:MM:SS, with the sign of a negative angle, MM and SS of two digits
\* and at most 59, and D * 3600 + MM * 60 + SS a whole number of arc
\* seconds nearest to 3600 times the absolute value of the angle.
C21_AngleIsRoundedAndCarried ==
    (sample.op = "field" /\ sample.done /\ sample.cls = "AngleFormat"
     /\ sample.v # PyNone) =>
        LET v == sample.v
            num == IF "den" \in DOMAIN v THEN v.num ELSE v.n
            den == IF "den" \in DOMAIN v THEN v.den ELSE 10
            abs == IF num < 0 THEN 0 - num ELSE num
            signed == sample.formatted # <<>> /\ sample.formatted[1] = "-"
            string == IF signed THEN Tail(sample.formatted) ELSE sample.formatted
            n == Len(string)
            D == SubSeq(string, 1, n - 6)
            MM == SubSeq(string, n - 4, n - 3)
            SS == SubSeq(string, n - 1, n)
            total == DigitsValue(D) * 3600 + DigitsValue(MM) * 60 + DigitsValue(SS)
            distance == IF total * den < 3600 * abs
                        THEN 3600 * abs - total * den
                        ELSE total * den - 3600 * abs
        IN  /\ signed <=> num < 0
            /\ n >= 7
            /\ string[n - 5] = ":" /\ string[n - 2] = ":"
            /\ AllDigits(D) /\ AllDigits(MM) /\ AllDigits(SS)
            /\ DigitsValue(MM) <= 59
            /\ DigitsValue(SS) <= 59
            /\ 2 * distance <= den

\* an angle of less than a degree whose seconds round up into the minutes
C21_Witness ==
    /\ sample.op = "field" /\ sample.done /\ sample.cls = "AngleFormat"
    /\ sample.v = [t |-> "float", num |-> 272, den |-> 16384]
    /\ sample.formatted = <<"0", ":", "0", "1", ":", "0", "0">>

\* C22: DateFormat.parse accepts a token exactly when it is M/D/YY with M
\* and D of one or two digits, YY of two, M in 1..12 and D in 1..the
\* number of days of month M of the year, which is 2000 + YY when YY < 70
\* and 1900 + YY otherwise, and returns that date; every other token
\* raises ValueError (the None token of the mode gives None).
\* Consequently a formatted date of the years 1970..2069 parses to itself.
C22_DateParse ==
    /\ (sample.op = "token" /\ sample.done /\ sample.cls = "DateFormat") =>
          LET s == sample.s
              IsNone == s = (IF sample.editing THEN _EDITING_NONE
                             ELSE FORMATTED_NONE)
              Days(y, m) ==
                  IF m \in {1, 3, 5, 7, 8, 10, 12} THEN 31
                  ELSE IF m \in {4, 6, 9, 11} THEN 30
                  ELSE IF y % 400 = 0 \/ (y % 4 = 0 /\ y % 100 # 0) THEN 29
                  ELSE 28
              Year(yy) == IF yy < 70 THEN 2000 + yy ELSE 1900 + yy
              Date(M, D) ==
                  [t |-> "date",
                   year |-> Year(DigitsValue(SubSeq(s, M + D + 3, Len(s)))),
                   month |-> DigitsValue(SubSeq(s, 1, M)),
                   day |-> DigitsValue(SubSeq(s, M + 2, M + D + 1))]
              dates == {Date(l[1], l[2]) :
                          l \in {k \in {1, 2} \X {1, 2} :
                                   /\ Len(s) = k[1] + k[2] + 4
                                   /\ s[k[1] + 1] = "/" /\ s[k[1] + k[2] + 2] = "/"
                                   /\ AllDigits(SubSeq(s, 1, k[1]))
                                   /\ AllDigits(SubSeq(s, k[1] + 2, k[1] + k[2] + 1))
                                   /\ AllDigits(SubSeq(s, k[1] + k[2] + 3, Len(s)))
                                   /\ Date(k[1], k[2]).month \in 1..12
                                   /\ Date(k[1], k[2]).day
                                         \in 1..Days(Date(k[1], k[2]).year,
                                                     Date(k[1], k[2]).month)}}
          IN  IF IsNone THEN sample.parsed = [result |-> "ok", value |-> PyNone]
              ELSE IF dates = {}
              THEN sample.parsed = [result |-> "ValueError", value |-> PyNone]
              ELSE /\ sample.parsed.result = "ok"
                   /\ sample.parsed.value \in dates
    /\ (sample.op = "field" /\ sample.done /\ sample.cls = "DateFormat") =>
          sample.parsed = [result |-> "ok", value |-> sample.v]

\* 2/29/00 is the 29th of February 2000
C22_Witness ==
    /\ sample.op = "token" /\ sample.done /\ sample.cls = "DateFormat"
    /\ sample.s = <<"2", "/", "2", "9", "/", "0", "0">>
    /\ sample.parsed = [result |-> "ok",
                        value |-> [t |-> "date", year |-> 2000, month |-> 2,
                                   day |-> 29]]

C24_CopyEqualsOriginal ==
    [][fieldCall'.op = "copy" =>
          LET c == fieldCall'
              original == records[c.source]
              made == records'[c.slot]
          IN  /\ records'[c.source] = original
              /\ c.kwds = <<>> => c.result = "ok"
              /\ c.result = "ok" =>
                    /\ made.cls = original.cls
                    /\ DOMAIN made.values = DOMAIN original.values
                    /\ \A name \in DOMAIN original.values :
                          PyEq(made.values[name],
                               IF name \in DOMAIN c.kwds
                               THEN Translate(ListedField(original.cls, name),
                                              c.kwds[name])
                               ELSE original.values[name])]_vars

(***************************************************************************)
(* C25: whenever the inverse of an edit e of the history is obtained, be   *)
(* e undoable or redoable at that time, the construction succeeds and the  *)
(* inverse is named e.name + ' Inverse', has the range [start, start +     *)
(* len(new)), old observations equal to e's new ones and new observations  *)
(* equal to e's old ones; and the inverse of that inverse has the range,   *)
(* the old and the new observations of e.                                  *)
(***************************************************************************)
C25_InverseSwapsOldAndNew ==
    \A stack \in {undoStack, redoStack} : \A k \in DOMAIN stack :
        LET e == stack[k]
            i == inverseEdit(e, observations)
            ii == inverseEdit(i, observations)
        IN  /\ inverseResult(e, observations) = "ok"
            /\ i.name = e.name \o " Inverse"
            /\ i.startIndex = e.startIndex
            /\ i.endIndex = e.startIndex + Len(e.newObservations)
            /\ i.oldObservations = e.newObservations
            /\ i.newObservations = e.oldObservations
            /\ inverseResult(i, observations) = "ok"
            /\ ii.startIndex = e.startIndex
            /\ ii.endIndex = e.endIndex
            /\ ii.oldObservations = e.oldObservations
            /\ ii.newObservations = e.newObservations

(***************************************************************************)
(* Records as objects.  A record object is an index of heap, and heap      *)
(* holds the value of its field (Obs of DocumentTests has one field).      *)
(* Observation.copy makes a new object with the same value.  The document  *)
(* and the edits of its history hold references to record objects, and so  *)
(* does a caller: to the records it made and passes to Document.edit.      *)
(***************************************************************************)
\* the number of record objects up to which the model follows the calls
MaxObjects == 6

_copyObjects_Shared(h, refs, startIndex, endIndex) ==
    [heap |-> h,
     refs |-> [k \in 1..(endIndex - startIndex) |-> refs[startIndex + k]]]

\* tuple(observations[i].copy() for i in range(startIndex, endIndex)): the
\* heap with the copies added, and the references to the copies
_copyObjects(h, refs, startIndex, endIndex) ==
    [heap |-> h \o [k \in 1..(endIndex - startIndex) |-> h[refs[startIndex + k]]],
     refs |-> [k \in 1..(endIndex - startIndex) |-> Len(h) + k]]

\* DocumentEdit.__init__ on objects: the heap after the copies of the old
\* and of the new observations were made, and the edit.  oldValues and
\* newValues record the field values the copies had when they were made.
DocumentEditObjects(h, name, doc, startIndex, endIndex, refs) ==
    LET Made(old) ==
            LET Built(new) ==
                    [heap |-> new.heap,
                     edit |-> [name |-> name, startIndex |-> startIndex,
                               endIndex |-> endIndex,
                               oldObservations |-> old.refs,
                               newObservations |-> new.refs,
                               oldValues |-> [k \in DOMAIN old.refs |->
                                                 new.heap[old.refs[k]]],
                               newValues |-> [k \in DOMAIN new.refs |->
                                                 new.heap[new.refs[k]]]]]
            IN  Built(_copyObjects(old.heap, refs, 0, Len(refs)))
    IN  Made(_copyObjects(h, doc, startIndex, endIndex))

\* DocumentEdit.do on objects: the heap and the document after copies of the
\* edit's new observations were assigned to the range of the edit
doObjects(h, e, doc) ==
    LET Put(copies) ==
            [heap |-> copies.heap,
             live |-> PySliceAssign(doc, e.startIndex, e.endIndex, copies.refs)]
    IN  Put(_copyObjects(h, e.newObservations, 0, Len(e.newObservations)))

\* Obs(v): a caller makes a record
newObservation(v) ==
    /\ Len(heap) < MaxObjects
    /\ heap' = Append(heap, v)
    /\ owned' = owned \cup {Len(heap) + 1}
    /\ UNCHANGED <<live, undoEdits, redoEdits>>
    /\ UNCHANGED <<docVars, schemaVars, nextNumber, command>>

\* obs.n = v, for a record the caller made or one of Document.observations
setField(ref, v) ==
    /\ ref \in owned \cup {live[k] : k \in DOMAIN live}
    /\ heap[ref] # v
    /\ heap' = [heap EXCEPT ![ref] = v]
    /\ UNCHANGED <<live, undoEdits, redoEdits, owned>>
    /\ UNCHANGED <<docVars, schemaVars, nextNumber, command>>

\* Document.edit(name, startIndex, endIndex, observations), the observations
\* being records the caller made or took from Document.observations
editDocument(name, startIndex, endIndex, refs) ==
    /\ \A k \in DOMAIN refs :
          refs[k] \in owned \cup {live[j] : j \in DOMAIN live}
    /\ _checkEditIndices(startIndex, endIndex, Len(live)) = "ok"
    /\ Len(heap) + (endIndex - startIndex) + 2 * Len(refs) <= MaxObjects
    /\ LET Done(made) ==
               LET Applied(done) ==
                       /\ heap' = done.heap
                       /\ live' = done.live
                       /\ undoEdits' = Append(undoEdits, made.edit)
                       /\ redoEdits' = <<>>
               IN  Applied(doObjects(made.heap, made.edit, live))
       IN  Done(DocumentEditObjects(heap, name, live, startIndex, endIndex, refs))
    /\ UNCHANGED owned
    /\ UNCHANGED <<docVars, schemaVars, nextNumber, command>>

\* Document.undo(): the inverse of the last edit is constructed and applied
undoDocument ==
    /\ undoEdits # <<>>
    /\ LET e == Last(undoEdits)
           endIndex == e.startIndex + Len(e.newObservations)
       IN  /\ _checkEditIndices(e.startIndex, endIndex, Len(live)) = "ok"
           /\ Len(heap) + Len(e.newObservations)
                 + 2 * Len(e.oldObservations) <= MaxObjects
           /\ LET Done(made) ==
                      LET Applied(done) ==
                              /\ heap' = done.heap
                              /\ live' = done.live
                      IN  Applied(doObjects(made.heap, made.edit, live))
              IN  Done(DocumentEditObjects(heap, e.name \o " Inverse", live,
                                           e.startIndex, endIndex,
                                           e.oldObservations))
    /\ undoEdits' = Front(undoEdits)
    /\ redoEdits' = Append(redoEdits, Last(undoEdits))
    /\ UNCHANGED owned
    /\ UNCHANGED <<docVars, schemaVars, nextNumber, command>>

\* Document.redo(): the last undone edit is applied again
redoDocument ==
    /\ redoEdits # <<>>
    /\ Len(heap) + Len(Last(redoEdits).newObservations) <= MaxObjects
    /\ LET Applied(done) ==
               /\ heap' = done.heap
               /\ live' = done.live
       IN  Applied(doObjects(heap, Last(redoEdits), live))
    /\ redoEdits' = Front(redoEdits)
    /\ undoEdits' = Append(undoEdits, Last(redoEdits))
    /\ UNCHANGED owned
    /\ UNCHANGED <<docVars, schemaVars, nextNumber, command>>

ObjectsNext ==
    \/ \E v \in Vals : newObservation(v)
    \/ \E ref \in DOMAIN heap, v \in Vals : setField(ref, v)
    \/ \E startIndex \in 0..Len(live), endIndex \in 0..Len(live) :
          \E refs \in SeqsUpTo(DOMAIN heap, 2) :
             /\ Len(undoEdits) < MaxUndo
             /\ editDocument(Names[Len(undoEdits) + 1], startIndex, endIndex,
                             refs)
    \/ undoDocument
    \/ redoDocument

SpecObjects == RecordsInit /\ [][ObjectsNext]_vars


(***************************************************************************)
(* SimpleCommand.py: commands that build observations.  A command is its   *)
(* name, the field names of its format and its default field values in the *)
(* order in which the dictionary lists them.  A default is registered for  *)
(* one field name or for a tuple of field names and is a constant or a     *)
(* callable that returns the next number of a serial number generator (for *)
(* a tuple of names: a tuple with that number for each name).              *)
(***************************************************************************)
\* the number up to which the model follows a serial number generator
MaxSerial == 3

\* SimpleCommand._getFieldValues(args), the generators' next numbers being
\* numbers: the outcome, the field values, for each default how often its
\* callable was invoked, and the generators' next numbers afterwards
_getFieldValues_AlwaysInvoked(cmd, args, numbers) ==
    LET Filled(parsed) ==
            LET bad == {i \in DOMAIN args :
                           i > Len(cmd.fieldNames) \/ parsed[i].result # "ok"}
                first == CHOOSE i \in bad : \A k \in bad : i <= k
                fromArgs ==
                    [name \in {cmd.fieldNames[i] : i \in DOMAIN args} |->
                        parsed[CHOOSE i \in DOMAIN args :
                                  cmd.fieldNames[i] = name].value]
                Default(prev, d) ==
                    LET names == IF d.tuple THEN {d.key[i] : i \in DOMAIN d.key}
                                 ELSE {d.key}
                        missing == {name \in names : name \notin DOMAIN prev.values}
                        called == d.callable
                        number == PyInt(prev.numbers[d.value])
                        Value(name) ==
                            IF ~d.tuple
                            THEN IF d.callable THEN number ELSE d.value
                            ELSE IF d.callable THEN number
                            ELSE d.value[CHOOSE i \in DOMAIN d.key : d.key[i] = name]
                    IN  [values |-> [name \in DOMAIN prev.values \cup missing |->
                                        IF name \in DOMAIN prev.values
                                        THEN prev.values[name] ELSE Value(name)],
                         invoked |-> Append(prev.invoked, IF called THEN 1 ELSE 0),
                         numbers |-> IF called
                                     THEN [prev.numbers EXCEPT ![d.value] = @ + 1]
                                     ELSE prev.numbers]
                Defaults[k \in 0..Len(cmd.defaults)] ==
                    IF k = 0
                    THEN [values |-> fromArgs, invoked |-> <<>>, numbers |-> numbers]
                    ELSE Default(Defaults[k - 1], cmd.defaults[k])
                Got(filled) ==
                    [result |-> "ok", values |-> filled.values,
                     invoked |-> filled.invoked, numbers |-> filled.numbers]
            IN  IF bad # {}
                THEN [result |-> IF first > Len(cmd.fieldNames) THEN "IndexError"
                                 ELSE "CommandInterpreterError",
                      values |-> <<>>, invoked |-> <<>>, numbers |-> numbers]
                ELSE Got(Defaults[Len(cmd.defaults)])
    IN  Filled([i \in DOMAIN args |->
                   parse(FieldFormat("IntegerFormat", <<>>), args[i], FALSE)])

_getFieldValues(cmd, args, numbers) ==
    LET Filled(parsed) ==
            LET bad == {i \in DOMAIN args :
                           i > Len(cmd.fieldNames) \/ parsed[i].result # "ok"}
                first == CHOOSE i \in bad : \A k \in bad : i <= k
                fromArgs ==
                    [name \in {cmd.fieldNames[i] : i \in DOMAIN args} |->
                        parsed[CHOOSE i \in DOMAIN args :
                                  cmd.fieldNames[i] = name].value]
                Default(prev, d) ==
                    LET names == IF d.tuple THEN {d.key[i] : i \in DOMAIN d.key}
                                 ELSE {d.key}
                        missing == {name \in names : name \notin DOMAIN prev.values}
                        called == missing # {} /\ d.callable
                        number == PyInt(prev.numbers[d.value])
                        Value(name) ==
                            IF ~d.tuple
                            THEN IF d.callable THEN number ELSE d.value
                            ELSE IF d.callable THEN number
                            ELSE d.value[CHOOSE i \in DOMAIN d.key : d.key[i] = name]
                    IN  [values |-> [name \in DOMAIN prev.values \cup missing |->
                                        IF name \in DOMAIN prev.values
                                        THEN prev.values[name] ELSE Value(name)],
                         invoked |-> Append(prev.invoked, IF called THEN 1 ELSE 0),
                         numbers |-> IF called
                                     THEN [prev.numbers EXCEPT ![d.value] = @ + 1]
                                     ELSE prev.numbers]
                Defaults[k \in 0..Len(cmd.defaults)] ==
                    IF k = 0
                    THEN [values |-> fromArgs, invoked |-> <<>>, numbers |-> numbers]
                    ELSE Default(Defaults[k - 1], cmd.defaults[k])
                Got(filled) ==
                    [result |-> "ok", values |-> filled.values,
                     invoked |-> filled.invoked, numbers |-> filled.numbers]
            IN  IF bad # {}
                THEN [result |-> IF first > Len(cmd.fieldNames) THEN "IndexError"
                                 ELSE "CommandInterpreterError",
                      values |-> <<>>, invoked |-> <<>>, numbers |-> numbers]
                ELSE Got(Defaults[Len(cmd.defaults)])
    IN  Filled([i \in DOMAIN args |->
                   parse(FieldFormat("IntegerFormat", <<>>), args[i], FALSE)])

\* SimpleCommand.__call__(*args): the field values, and the observation
\* constructed from them, whose other fields are None
execute(cmd, args) ==
    /\ \A g \in DOMAIN nextNumber : nextNumber[g] < MaxSerial
    /\ LET Done(got) ==
               /\ nextNumber' = got.numbers
               /\ command' = [op |-> "command", cmd |-> cmd, args |-> args,
                              result |-> got.result, invoked |-> got.invoked,
                              values |-> got.values,
                              observation |->
                                  IF got.result # "ok" THEN <<>>
                                  ELSE [name \in {"x", "y", "z"} |->
                                           IF name \in DOMAIN got.values
                                           THEN got.values[name] ELSE PyNone]]
       IN  Done(_getFieldValues(cmd, args, nextNumber))
    /\ UNCHANGED <<heap, live, undoEdits, redoEdits, owned>>
    /\ UNCHANGED <<docVars, schemaVars>>

\* the commands of an interpreter, and the arguments typed
CommandsNext ==
    LET Constant(name, value) ==
            [tuple |-> FALSE, key |-> name, callable |-> FALSE, value |-> value]
        Generated(name, generator) ==
            [tuple |-> FALSE, key |-> name, callable |-> TRUE, value |-> generator]
        Constants(names, values) ==
            [tuple |-> TRUE, key |-> names, callable |-> FALSE, value |-> values]
        GeneratedTuple(names, generator) ==
            [tuple |-> TRUE, key |-> names, callable |-> TRUE, value |-> generator]
        Commands ==
            {[name |-> "a", fieldNames |-> <<"x", "y">>,
              defaults |-> <<Generated("z", "g1")>>],
             [name |-> "b", fieldNames |-> <<"x", "y">>,
              defaults |-> <<Generated("x", "g1"), GeneratedTuple(<<"y", "z">>, "g2"),
                             Constant("z", PyInt(0))>>],
             [name |-> "c", fieldNames |-> <<"y">>,
              defaults |-> <<GeneratedTuple(<<"x", "y">>, "g1"),
                             Constants(<<"y", "z">>, <<PyInt(8), PyInt(9)>>)>>],
             [name |-> "d", fieldNames |-> <<"z", "x">>,
              defaults |-> <<Constant("z", PyInt(0)), Generated("x", "g2"),
                             GeneratedTuple(<<"x", "z">>, "g1")>>],
             [name |-> "e", fieldNames |-> <<>>, defaults |-> <<>>]}
    IN  \E cmd \in Commands :
           \E args \in SeqsUpTo({<<"7">>, <<"x">>, FORMATTED_NONE}, 3) :
              execute(cmd, args)

SpecCommands == RecordsInit /\ [][CommandsNext]_vars

(***************************************************************************)
(* C26: no record object is shared between Document.observations, the old  *)
(* and new observations of the edits of the history and the records a      *)
(* caller made: the objects an edit holds are held by nothing else and     *)
(* keep the field values they were made with whatever is assigned to the   *)
(* records of the document and of the caller, and undo and redo put into   *)
(* the document records with the values the edit captured.                 *)
(***************************************************************************)
C26_NoRecordIsShared ==
    [][LET Range(refs) == {refs[k] : k \in DOMAIN refs}
           Distinct(refs) == \A j, k \in DOMAIN refs : refs[j] = refs[k] => j = k
           Values(h, refs) == [k \in DOMAIN refs |-> h[refs[k]]]
           edits == undoEdits' \o redoEdits'
           Held(j) == edits[j].oldObservations \o edits[j].newObservations
       IN  /\ Distinct(live')
           /\ Range(live') \cap owned' = {}
           /\ \A j \in DOMAIN edits :
                 /\ Distinct(Held(j))
                 /\ Range(Held(j)) \cap (Range(live') \cup owned') = {}
                 /\ \A k \in DOMAIN edits :
                       k # j => Range(Held(j)) \cap Range(Held(k)) = {}
                 /\ Values(heap', edits[j].oldObservations) = edits[j].oldValues
                 /\ Values(heap', edits[j].newObservations) = edits[j].newValues
           /\ (undoEdits # <<>> /\ undoEdits' = Front(undoEdits)
                 /\ redoEdits' = Append(redoEdits, Last(undoEdits)))
                 => LET e == Last(undoEdits)
                    IN  Values(heap', SubSeq(live', e.startIndex + 1,
                                             e.startIndex + Len(e.oldValues)))
                           = e.oldValues
           /\ (redoEdits # <<>> /\ redoEdits' = Front(redoEdits)
                 /\ undoEdits' = Append(undoEdits, Last(redoEdits)))
                 => LET e == Last(redoEdits)
                    IN  Values(heap', SubSeq(live', e.startIndex + 1,
                                             e.startIndex + Len(e.newValues)))
                           = e.newValues]_vars

\* an edit put in a copy of the caller's record with the value 2, the caller
\* then set its record to 1 and the record of the document to 1, and the
\* edit was undone and redone: the document holds a record with the value 2
C26_Witness ==
    /\ owned = {1}
    /\ Len(heap) = 5
    /\ heap[1] = 1
    /\ redoEdits = <<>>
    /\ Len(undoEdits) = 1
    /\ undoEdits[1].newValues = <<2>>
    /\ undoEdits[1].oldValues = <<>>
    /\ Len(live) = 1
    /\ heap[live[1]] = 2
    /\ heap[3] = 1

(***************************************************************************)
(* C27: when a command builds an observation, the callable of a default is *)
(* invoked once if one of the fields it is registered for has no value     *)
(* from the arguments or from an earlier default, and not at all           *)
(* otherwise; the values of the arguments are the values of their fields;  *)
(* and a serial number generator advances by one in a command that needs   *)
(* its number and not at all in the others.                                *)
(***************************************************************************)
C27_DefaultsInvokedWhenNeeded ==
    [][command'.op = "command" =>
          LET c == command'
              defaults == c.cmd.defaults
              Covered(k) ==
                  IF defaults[k].tuple
                  THEN {defaults[k].key[i] : i \in DOMAIN defaults[k].key}
                  ELSE {defaults[k].key}
              supplied == {c.cmd.fieldNames[i] : i \in DOMAIN c.args}
              HaveValue(k) == supplied \cup UNION {Covered(j) : j \in 1..(k - 1)}
              Needed(k) == ~(Covered(k) \subseteq HaveValue(k))
              Generated(g) == {k \in DOMAIN defaults :
                                  defaults[k].callable /\ defaults[k].value = g}
          IN  IF c.result # "ok"
              THEN nextNumber' = nextNumber
              ELSE /\ DOMAIN c.invoked = DOMAIN defaults
                   /\ \A k \in DOMAIN defaults :
                         c.invoked[k] = IF defaults[k].callable /\ Needed(k)
                                        THEN 1 ELSE 0
                   /\ \A i \in DOMAIN c.args :
                         c.observation[c.cmd.fieldNames[i]]
                            = parse(FieldFormat("IntegerFormat", <<>>),
                                    c.args[i], FALSE).value
                   /\ \A g \in DOMAIN nextNumber :
                         nextNumber'[g] =
                            nextNumber[g]
                               + (IF \E k \in Generated(g) : Needed(k)
                                  THEN 1 ELSE 0)
                   /\ \A k \in DOMAIN defaults : \A name \in Covered(k) :
                         (defaults[k].callable /\ name \notin HaveValue(k))
                            => c.observation[name]
                                  = PyInt(nextNumber[defaults[k].value])]_vars

\* command b with one argument, after other commands: the generator of x is
\* not invoked and stays at 1, the generator of y and z is invoked once and
\* gives its number 2 to both
C27_Witness ==
    /\ command.op = "command"
    /\ command.cmd.name = "b"
    /\ command.args = << <<"7">> >>
    /\ command.result = "ok"
    /\ command.invoked = <<0, 1, 0>>
    /\ command.observation = [x |-> PyInt(7), y |-> PyInt(2), z |-> PyInt(2)]
    /\ nextNumber = [g1 |-> 1, g2 |-> 3]

C29_ListedFieldIsTheDescriptor ==
    sample.op = "compose" /\ sample.done =>
        LET classes == ClassesOf(sample.shape, sample.declares)
            fields == sample.result
        IN  \A i \in 1..Len(fields) :
               FieldObject(classes, fields[i].owner, fields[i].name)
                  = FieldObject(classes,
                                AttributeOwner(classes, sample.cls, fields[i].name),
                                fields[i].name)

(***************************************************************************)
(* C30: in a document format, the observation format that a line is parsed *)
(* with because the line's token at a key index is in the key set of that  *)
(* index has that key index and that token as its key.  (The formats by    *)
(* key are a dictionary, so that one key never selects two formats.)       *)
(***************************************************************************)
C30_KeyIdentifiesOneFormat ==
    (sample.op = "line" /\ sample.done) =>
        LET doc == SimpleDocumentFormat(sample.formats)
            tokens == tokenizeString(sample.line).tokens
            matching == {r \in 1..Len(doc._keySets) :
                            /\ doc._keySets[r].keyIndex <= Len(tokens)
                            /\ tokens[doc._keySets[r].keyIndex]
                                  \in doc._keySets[r].keys}
            i == doc._keySets[CHOOSE r \in matching :
                                 \A q \in matching : r <= q].keyIndex
            selected == doc._obsFormatsByKey[tokens[i]]
            Key(f) == f.items[f.keyIndex].text
        IN  matching # {} =>
               /\ selected.keyIndex = i
               /\ Key(selected) = tokens[i]

=============================================================================
